---- MODULE Spec2Model ----
(***************************************************************************)
(* Transport and scheduling engine of the Pisound driver                   *)
(* (sound/soc/bcm/pisound.c): the work scheduler, the transfer session     *)
(* (pisnd_work_handler), the two byte queues, the LED request, the output  *)
(* occupancy estimate and the start / stop sequences.                      *)
(*                                                                         *)
(* Execution contexts, each with its own program counter:                  *)
(*   life_pc        the probe / remove thread (pisnd_spi_init, _uninit)    *)
(*   w_pc           the single worker thread of pisnd_workqueue            *)
(*   call_pc[c]     the callers of pisnd_schedule_process: the threaded    *)
(*                  interrupt handler, the LED store, the MIDI output      *)
(*                  trigger, the MIDI input trigger, pisnd_spi_init        *)
(***************************************************************************)
EXTENDS Integers, Sequences, FiniteSets, TLC

(* ------------------------------------------------------------------------ *)
(* Program constants                                                        *)
(* ------------------------------------------------------------------------ *)
FIFO_SIZE == 4096
TRANSFER_SIZE == 4
PISOUND_OUTPUT_BUFFER_SIZE_MILLIBYTES == 127 * 1000
HZ == 100
MIDI_MILLIBYTES_PER_JIFFIE == (3125 * 1000) \div HZ
\* the literal 16 of "kfifo_len(&spi_fifo_in) > 16"
RECV_THRESHOLD == 16
\* the literal 1000 added per outbound byte and in the headroom test
MILLIBYTES_PER_BYTE == 1000
\* slot markers written to txbuf[i+0]
LED_MARKER == 240
DATA_MARKER == 15
\* sizes of the identity fields and of the record buffer of spi_read_info
SERIAL_SIZE == 11
ID_SIZE == 25
MAX_VERSION_STR_LEN == 6
RECORD_MAX == 256

(* ------------------------------------------------------------------------ *)
(* Bounds of the model                                                      *)
(* ------------------------------------------------------------------------ *)
\* timer ticks that can fall between two block exchanges of one session
MaxElapsed == 2
\* jiffies for which the worker thread can be kept off the processor in one
\* stall (687 s at HZ = 100); at most one stall falls between two block
\* exchanges
StallJiffies == 68720
\* bytes the device sends in the small scenarios
MaxRx == 1
\* bytes the device sends in the receive scenario (more than RECV_THRESHOLD)
MaxRxLong == 18
\* calls of pisnd_spi_flash_leds in the LED scenario
MaxLedCalls == 2
\* bytes the application wrote to the output stream in the scheduling scenario
MaxTxShort == 1
\* bytes the application wrote to the output stream in the drain scenario
MaxTx == 16
\* bytes the application wrote in the occupancy scenario (more than 126)
MaxTxLong == 130
\* the records a device of SpecInfo announces at most
MaxRecords == 5
\* the characters of a text written to the LED attribute, at most
MaxLedText == 3

Durations == {5, 10}
Ctx == {"irq", "led", "out", "drain", "in", "init"}

VARIABLES
    \* probe / remove thread
    life_pc, init_ret,
    \* module globals of the scheduler
    pisnd_spi_device,      \* TRUE: non-NULL
    pisnd_workqueue,       \* "NULL", "live", or "dead" (pointer to a destroyed queue)
    work_pending,          \* WORK_STRUCT_PENDING bit of pisnd_work_process
    wq_queued,             \* entries of pisnd_work_process in the queue
    irq_on,                \* data_available_int is registered
    irq_latch,             \* a rising edge waits for the handler thread
    data_available,        \* TRUE: the gpio descriptor is held
    da_level,              \* level of the data-available line
    call_pc,
    led_arg,               \* parameter "duration" of the pisnd_spi_flash_leds call in progress
    oops,                  \* the kernel faulted (undefined behaviour was hit)
    \* worker thread: executions of pisnd_work_handler in progress, and the
    \* position and locals of the execution
    w_running,
    w_pc, w_i, out_buffer_used_millibytes, last_transfer_at, had_data,
    w_n,                   \* local "n": bytes returned by the last snd_rawmidi_transmit_peek
    txbuf, rxbuf,
    jiffies,               \* the clock, see Elapsed
    \* queues, LED request, callback, output stream
    spi_fifo_in, spi_fifo_out,
    g_ledFlashDuration, g_ledFlashDurationChanged,
    g_recvCallback, g_recvData,
    g_midi_output_substream, substream_buf,
    \* the device and the observers
    spi_last,              \* the last spi_sync: "none", "info", "flash", "block",
                           \* or "failed" for a block of which it returned an error
    dev_total, rx_n,       \* bytes the device has to send / has sent in valid slots
    delivered,             \* one entry per call of g_recvCallback: the bytes it
                           \* handed to snd_rawmidi_receive
    led_left,              \* LED calls still to come, or Unobserved: any number
                           \* of calls, with no history kept in led_log and of
                           \* failed blocks in spi_last
    led_log,               \* history of the LED request: << "call", d >> on entry to
                           \* pisnd_spi_flash_leds(d), << "req", d >> when its flag is
                           \* set, << "take", v >> when the session copies the duration
                           \* into a slot, << "sent", v >> when the slot goes to the bus
    tx_left, tx_n,         \* bytes the application will still write / has written
    \* the handshake
    dev_info,              \* the words the device answers to spi_read_info
    info_n,                \* the exchanges spi_read_info made in this start
    info_err,              \* how spi_read_info ended in this start: "none",
                           \* "bus" (a spi_sync of it failed) or "protocol"
    g_fw_version, g_serial_num, g_id, g_hw_version

vars == << life_pc, init_ret, pisnd_spi_device, pisnd_workqueue, work_pending,
           wq_queued, irq_on, irq_latch, data_available, da_level, call_pc, led_arg,
           oops, w_running, w_pc, w_i, out_buffer_used_millibytes, last_transfer_at, had_data, w_n,
           txbuf, rxbuf, jiffies, spi_fifo_in, spi_fifo_out,
           g_ledFlashDuration, g_ledFlashDurationChanged,
           g_recvCallback, g_recvData, g_midi_output_substream, substream_buf,
           spi_last, dev_total, rx_n, delivered, led_left, led_log,
           tx_left, tx_n, dev_info, info_n, info_err,
           g_fw_version, g_serial_num, g_id, g_hw_version >>

lifeVars == << life_pc, init_ret, pisnd_spi_device, pisnd_workqueue, irq_on,
               data_available >>
schedVars == << work_pending, wq_queued >>
workerVars == << w_running, w_pc, w_i, out_buffer_used_millibytes, last_transfer_at,
                 had_data, w_n, txbuf, rxbuf >>
queueVars == << spi_fifo_in, spi_fifo_out >>
ledVars == << g_ledFlashDuration, g_ledFlashDurationChanged >>
cbVars == << g_recvCallback, g_recvData >>
streamVars == << g_midi_output_substream, substream_buf >>
lineVars == << da_level, irq_latch >>
callVars == << call_pc, led_arg >>
idVars == << g_fw_version, g_serial_num, g_id, g_hw_version >>
infoVars == << dev_info, info_n, info_err, idVars >>
obsVars == << spi_last, dev_total, rx_n, delivered, led_left, led_log,
             tx_left, tx_n, infoVars >>

(* ------------------------------------------------------------------------ *)
(* Pure helpers                                                             *)
(* ------------------------------------------------------------------------ *)
Min(a, b) == IF a < b THEN a ELSE b

EmptySlot == << 0, 0 >>
EmptyBuf == << EmptySlot, EmptySlot >>

\* kfifo_put: appends unless the queue is full; a full queue is left as it is
kfifo_put_overwrite(q, b) ==
    IF Len(q) < FIFO_SIZE THEN Append(q, b) ELSE Append(Tail(q), b)

kfifo_put(q, b) == IF Len(q) < FIFO_SIZE THEN Append(q, b) ELSE q

kfifo_avail(q) == FIFO_SIZE - Len(q)

kfifo_is_empty(q) == q = << >>

RECURSIVE kfifo_put_all_reversed(_, _)
kfifo_put_all_reversed(q, bs) ==
    IF bs = << >> THEN q
    ELSE kfifo_put(kfifo_put_all_reversed(q, Tail(bs)), Head(bs))

RECURSIVE kfifo_put_all(_, _)
kfifo_put_all(q, bs) ==
    IF bs = << >> THEN q ELSE kfifo_put_all(kfifo_put(q, Head(bs)), Tail(bs))

\* the k-th byte the device sends (k = 1, 2, ...)
RxByte(k) == k % 256

\* "out_buffer_used_millibytes + 1000" in the 32-bit int of the C code (the
\* kernel is built with -fno-strict-overflow: a sum above 2^31 - 1 wraps)
AddMillibyte(used) ==
    IF used > (2^30 - MILLIBYTES_PER_BYTE) + (2^30 - 1)
    THEN (((used - 2^30) - 2^30) + MILLIBYTES_PER_BYTE - 2^30) - 2^30
    ELSE used + MILLIBYTES_PER_BYTE

\* "out_buffer_used_millibytes+1000 < PISOUND_OUTPUT_BUFFER_SIZE_MILLIBYTES"
HasHeadroom(used) ==
    AddMillibyte(used) < PISOUND_OUTPUT_BUFFER_SIZE_MILLIBYTES

\* The program looks at the clock only in "now - last_transfer_at".  A time
\* is kept as << ticks, stalls >>, standing for ticks + stalls * StallJiffies
\* jiffies counted from Epoch, the moment of the session's last reading:
\* when the session stores a reading in last_transfer_at, the clock and the
\* reading are both re-based to Epoch.
Epoch == << 0, 0 >>

Elapsed(now, last) ==
    (now[1] - last[1]) + (now[2] - last[2]) * StallJiffies

\* "out_buffer_used_millibytes -= (now - last_transfer_at) *
\*  MIDI_MILLIBYTES_PER_JIFFIE; if (out_buffer_used_millibytes < 0)
\*  out_buffer_used_millibytes = 0;"
\* The left side is an int and the product an unsigned long: the difference
\* is reduced modulo 2^32 to the range -2^31 .. 2^31 - 1 when it is stored.
\* With h half the product, the stored value is used - 2h when that is at
\* least -2^31, and used - 2h + 2^32 below that; the terms are ordered so
\* that no intermediate value leaves the range of a 32-bit integer.
HalfRate == MIDI_MILLIBYTES_PER_JIFFIE \div 2

Drain(used, elapsed) ==
    LET h == elapsed * HalfRate
        c == (2^30 - h) + 2^30
    IN  IF h > 2^30 + used \div 2 THEN (c + used) + c
        ELSE IF used - h < h THEN 0
        ELSE used - h - h

\* pisnd_spi_has_more: gpiod_get_value of a NULL descriptor reads 0
pisnd_spi_has_more == data_available /\ da_level

\* LED command slots of a block, in slot order
LedSlots(buf) ==
    SelectSeq(<< buf[1], buf[2] >>, LAMBDA s : s[1] = LED_MARKER)

LedSent(buf) ==
    LET s == LedSlots(buf)
    IN  [k \in 1..Len(s) |-> << "sent", s[k][2] >>]

(* ------------------------------------------------------------------------ *)
(* pisnd_schedule_process and its callers                                   *)
(* ------------------------------------------------------------------------ *)
SetPc(c, pc) == call_pc' = [call_pc EXCEPT ![c] = pc]

\* where a caller continues after pisnd_schedule_process: pisnd_spi_flush goes
\* on to flush_workqueue, the others return
AfterSchedule(c) == IF c = "drain" THEN "fl_wait" ELSE "idle"

\* the condition of pisnd_schedule_process
ScheduleGuard ==
    pisnd_spi_device /\ pisnd_workqueue # "NULL" /\ ~work_pending

\* queue_work on a live queue: test-and-set of the pending bit, then enqueue;
\* the pair << work_pending, wq_queued >> after the call
queue_work(pending, queued) ==
    IF pending THEN << pending, queued >> ELSE << TRUE, queued + 1 >>

\* a kernel fault stops every context
Halt ==
    /\ oops' = TRUE
    /\ life_pc' = "halt" /\ w_pc' = "halt"
    /\ call_pc' = [x \in Ctx |-> "halt"]

\* pisnd_schedule_process, first half: the three tests
SchedCheck(c) ==
    /\ call_pc[c] = "sched"
    /\ SetPc(c, IF ScheduleGuard THEN "queue" ELSE AfterSchedule(c))
    /\ UNCHANGED << lifeVars, schedVars, lineVars, led_arg, oops, workerVars,
                    jiffies, queueVars, ledVars, cbVars, streamVars, obsVars >>

\* "queue_work(pisnd_workqueue, &pisnd_work_process)": the one work item of
\* the module, initialised once by INIT_WORK, is handed to queue_work
schedule_enqueue_reinit(pending, queued) == queue_work(FALSE, queued)

schedule_enqueue(pending, queued) == queue_work(pending, queued)

\* pisnd_schedule_process, second half: queue_work(pisnd_workqueue, ...).
\* On a destroyed (or by now NULL) queue the call is undefined: the kernel
\* faults, or the pending bit is taken and the request is lost.
QueueWork(c) ==
    /\ call_pc[c] = "queue"
    /\ IF pisnd_workqueue = "live"
       THEN /\ work_pending' = schedule_enqueue(work_pending, wq_queued)[1]
            /\ wq_queued' = schedule_enqueue(work_pending, wq_queued)[2]
            /\ SetPc(c, AfterSchedule(c))
            /\ UNCHANGED << oops, life_pc, w_pc >>
       ELSE \E fault \in BOOLEAN :
              IF fault
              THEN Halt /\ UNCHANGED << work_pending, wq_queued >>
              ELSE /\ work_pending' = TRUE
                   /\ SetPc(c, AfterSchedule(c))
                   /\ UNCHANGED << oops, life_pc, w_pc, wq_queued >>
    /\ UNCHANGED << init_ret, pisnd_spi_device, pisnd_workqueue, irq_on,
                    data_available, lineVars, led_arg, w_running, w_i,
                    out_buffer_used_millibytes, last_transfer_at, had_data, w_n,
                    txbuf, rxbuf, jiffies, queueVars, ledVars, cbVars,
                    streamVars, obsVars >>

\* the device raises the data-available line; a rising edge is latched while
\* the interrupt is registered
DevRaise ==
    /\ ~oops /\ ~da_level
    /\ da_level' = TRUE
    /\ irq_latch' = irq_on
    /\ UNCHANGED << lifeVars, schedVars, callVars, oops, workerVars, jiffies,
                    queueVars, ledVars, cbVars, streamVars, obsVars >>

\* the device releases the line when it has nothing left to send
DevLower ==
    /\ ~oops /\ da_level /\ rx_n = dev_total
    /\ da_level' = FALSE
    /\ UNCHANGED << irq_latch, lifeVars, schedVars, callVars, oops, workerVars,
                    jiffies, queueVars, ledVars, cbVars, streamVars, obsVars >>

\* data_available_interrupt_handler up to its call of pisnd_schedule_process
data_available_interrupt_handler ==
    /\ irq_on /\ irq_latch /\ call_pc["irq"] = "idle"
    /\ irq_latch' = FALSE
    /\ SetPc("irq", IF pisnd_spi_has_more THEN "sched" ELSE "idle")
    /\ UNCHANGED << da_level, lifeVars, schedVars, led_arg, oops, workerVars,
                    jiffies, queueVars, ledVars, cbVars, streamVars, obsVars >>

\* the sysfs attributes exist, and the LED store can be called, from the end of
\* a successful probe to the kobject_put of pisnd_remove
SysfsLive == life_pc = "loaded"

\* the sound card is registered from the end of probe until
\* snd_soc_unregister_card, which pisnd_remove calls after pisnd_spi_uninit
CardLive == life_pc \in {"loaded", "u_flush", "u_destroy", "u_null", "u_dev",
                         "u_irq", "u_gpio"}

\* the histories (the LED requests, the failed blocks) are kept unless the
\* calls are Unobserved
Unobserved == 0 - 1

Log(entries) ==
    led_log' = IF led_left = Unobserved THEN led_log ELSE led_log \o entries

\* pisnd_spi_flash_leds: "g_ledFlashDuration = duration"
FlashLedsDuration(d) ==
    /\ SysfsLive /\ call_pc["led"] = "idle" /\ led_left # 0
    /\ g_ledFlashDuration' = d
    /\ led_arg' = d
    /\ led_left' = IF led_left = Unobserved THEN led_left ELSE led_left - 1
    /\ Log(<< << "call", d >> >>)
    /\ SetPc("led", "flag")
    /\ UNCHANGED << g_ledFlashDurationChanged, lifeVars, schedVars, lineVars,
                    oops, workerVars, jiffies, queueVars, cbVars, streamVars,
                    spi_last, dev_total, rx_n, delivered, tx_left, tx_n, infoVars >>

\* pisnd_spi_flash_leds: "g_ledFlashDurationChanged = true", then the call of
\* pisnd_schedule_process
FlashLedsChanged ==
    /\ call_pc["led"] = "flag"
    /\ g_ledFlashDurationChanged' = TRUE
    /\ Log(<< << "req", led_arg >> >>)
    /\ led_arg' = 0
    /\ SetPc("led", "sched")
    /\ UNCHANGED << g_ledFlashDuration, lifeVars, schedVars, lineVars, oops,
                    workerVars, jiffies, queueVars, cbVars, streamVars,
                    spi_last, dev_total, rx_n, delivered, led_left, tx_left, tx_n, infoVars >>

\* kstrtou32(buf, 10, &timeout) on a text of at most MaxLedText characters
\* (which can not exceed 32 bits): an optional "+", decimal digits, an
\* optional newline; << err, timeout >>
kstrtou32(buf) ==
    LET s == IF buf # << >> /\ Head(buf) = "+" THEN Tail(buf) ELSE buf
        digits == << "0", "1", "2", "3", "4", "5", "6", "7", "8", "9" >>
        IsDigit(c) == \E d \in 1..10 : digits[d] = c
        rv == IF \A k \in 1..Len(s) : IsDigit(s[k]) THEN Len(s)
              ELSE (CHOOSE k \in 1..Len(s) :
                       /\ ~IsDigit(s[k])
                       /\ \A j \in 1..(k - 1) : IsDigit(s[j])) - 1
        rest == SubSeq(s, rv + 1, Len(s))
        res[k \in 0..rv] ==
            IF k = 0 THEN 0
            ELSE 10 * res[k - 1] + (CHOOSE d \in 0..9 : digits[d + 1] = s[k])
    IN  IF rv = 0 \/ rest \notin {<< >>, << "nl" >>}
        THEN << "EINVAL", 0 >>
        ELSE << "0", res[rv] >>

\* "if (err == 0 && timeout <= 255)"
LedStoreAcceptsAny(r) == r[1] = "0"

LedStoreAccepts(r) == r[1] = "0" /\ r[2] <= 255

\* a write of buf to the led attribute enters pisnd_led_store
pisnd_led_store(buf) ==
    /\ SysfsLive /\ call_pc["led"] = "idle" /\ led_left # 0
    /\ led_arg' = buf
    /\ led_left' = IF led_left = Unobserved THEN led_left ELSE led_left - 1
    /\ SetPc("led", "store")
    /\ UNCHANGED << ledVars, led_log, lifeVars, schedVars, lineVars,
                    oops, workerVars, jiffies, queueVars, cbVars, streamVars,
                    spi_last, dev_total, rx_n, delivered, tx_left, tx_n, infoVars >>

\* pisnd_led_store: kstrtou32, the test, and either the return or the call of
\* pisnd_spi_flash_leds(timeout) up to "g_ledFlashDuration = duration"; the
\* parameter of pisnd_spi_flash_leds is a uint8_t
LedStoreParse ==
    /\ call_pc["led"] = "store"
    /\ IF LedStoreAccepts(kstrtou32(led_arg))
       THEN /\ g_ledFlashDuration' = kstrtou32(led_arg)[2] % 256
            /\ led_arg' = kstrtou32(led_arg)[2] % 256
            /\ Log(<< << "call", kstrtou32(led_arg)[2] % 256 >> >>)
            /\ SetPc("led", "flag")
       ELSE /\ led_arg' = 0
            /\ SetPc("led", "idle")
            /\ UNCHANGED << g_ledFlashDuration, led_log >>
    /\ UNCHANGED << g_ledFlashDurationChanged, lifeVars, schedVars, lineVars,
                    oops, workerVars, jiffies, queueVars, cbVars, streamVars,
                    spi_last, dev_total, rx_n, delivered, led_left, tx_left, tx_n,
                    infoVars >>

pisnd_output_open ==
    /\ CardLive /\ ~g_midi_output_substream
    /\ g_midi_output_substream' = TRUE
    /\ UNCHANGED << substream_buf, lifeVars, schedVars, lineVars, callVars, oops,
                    workerVars, jiffies, queueVars, ledVars, cbVars, obsVars >>

\* pisnd_output_close; the rawmidi core drops what the stream still holds
pisnd_output_close ==
    /\ g_midi_output_substream /\ call_pc["out"] = "idle"
    /\ g_midi_output_substream' = FALSE
    /\ substream_buf' = << >>
    /\ UNCHANGED << lifeVars, schedVars, lineVars, callVars, oops, workerVars,
                    jiffies, queueVars, ledVars, cbVars, obsVars >>

\* pisnd_output_trigger(substream, up = 1) -> pisnd_spi_start
pisnd_output_trigger ==
    /\ CardLive /\ g_midi_output_substream /\ call_pc["out"] = "idle"
    /\ SetPc("out", "sched")
    /\ UNCHANGED << lifeVars, schedVars, lineVars, led_arg, oops, workerVars,
                    jiffies, queueVars, ledVars, cbVars, streamVars, obsVars >>

\* the application writes one byte to the open output stream (the rawmidi core
\* then calls the trigger)
TxByte(k) == k % 256

AppWrite ==
    /\ CardLive /\ g_midi_output_substream /\ tx_left > 0
    /\ substream_buf' = Append(substream_buf, TxByte(tx_n + 1))
    /\ tx_n' = tx_n + 1
    /\ tx_left' = tx_left - 1
    /\ UNCHANGED << g_midi_output_substream, lifeVars, schedVars, lineVars,
                    callVars, oops, workerVars, jiffies, queueVars, ledVars,
                    cbVars, spi_last, dev_total, rx_n, delivered, led_left,
                    led_log, infoVars >>

\* pisnd_output_drain -> pisnd_spi_flush: "while (!kfifo_is_empty(&spi_fifo_out))",
\* on entry and after each flush_workqueue
FlushTest ==
    /\ \/ call_pc["drain"] = "idle" /\ CardLive /\ g_midi_output_substream
          /\ ~kfifo_is_empty(spi_fifo_out)
       \/ call_pc["drain"] = "fl_test"
    /\ SetPc("drain", IF kfifo_is_empty(spi_fifo_out) THEN "idle" ELSE "sched")
    /\ UNCHANGED << lifeVars, schedVars, lineVars, led_arg, oops, workerVars,
                    jiffies, queueVars, ledVars, cbVars, streamVars, obsVars >>

\* pisnd_spi_flush: "flush_workqueue(pisnd_workqueue)", which returns once
\* nothing is queued and no handler runs; without a live queue it faults
FlushWorkqueue ==
    /\ call_pc["drain"] = "fl_wait"
    /\ IF pisnd_workqueue = "live"
       THEN /\ wq_queued = 0 /\ w_running = 0
            /\ SetPc("drain", "fl_test")
            /\ UNCHANGED << oops, life_pc, w_pc >>
       ELSE Halt
    /\ UNCHANGED << init_ret, pisnd_spi_device, pisnd_workqueue, irq_on,
                    data_available, schedVars, lineVars, led_arg, w_running, w_i,
                    out_buffer_used_millibytes, last_transfer_at, had_data, w_n,
                    txbuf, rxbuf, jiffies, queueVars, ledVars, cbVars,
                    streamVars, obsVars >>

\* pisnd_input_trigger: pisnd_spi_set_callback writes g_recvData, then
\* g_recvCallback; with up it then calls pisnd_schedule_process
InputTriggerData(up) ==
    /\ CardLive /\ call_pc["in"] = "idle"
    /\ g_recvData' = IF up THEN "substream" ELSE "NULL"
    /\ SetPc("in", IF up THEN "cb_up" ELSE "cb_down")
    /\ UNCHANGED << g_recvCallback, lifeVars, schedVars, lineVars, led_arg, oops,
                    workerVars, jiffies, queueVars, ledVars, streamVars, obsVars >>

InputTriggerCallback ==
    /\ call_pc["in"] \in {"cb_up", "cb_down"}
    /\ g_recvCallback' = IF call_pc["in"] = "cb_up" THEN "pisnd_midi_recv_callback"
                         ELSE "NULL"
    /\ SetPc("in", IF call_pc["in"] = "cb_up" THEN "sched" ELSE "idle")
    /\ UNCHANGED << g_recvData, lifeVars, schedVars, lineVars, led_arg, oops,
                    workerVars, jiffies, queueVars, ledVars, streamVars, obsVars >>

(* ------------------------------------------------------------------------ *)
(* pisnd_work_handler, run by the single thread of pisnd_workqueue          *)
(* ------------------------------------------------------------------------ *)
Slot == w_i \div 2 + 1

\* the locals of a handler that is not running hold nothing
WorkerReset ==
    /\ w_i' = 0
    /\ out_buffer_used_millibytes' = 0
    /\ last_transfer_at' = jiffies
    /\ had_data' = FALSE
    /\ w_n' = 0
    /\ txbuf' = EmptyBuf
    /\ rxbuf' = EmptyBuf

\* work items the queue made by create_singlethread_workqueue runs at a time
max_active_unbound == 1 + 1

max_active == 1

\* the worker thread takes the work item off the queue (the pending bit is
\* cleared before the handler is called) and enters pisnd_work_handler:
\* the initialisers of the locals and "if (pisnd_spi_device == NULL) return"
WorkStart ==
    /\ ~oops /\ w_running < max_active /\ wq_queued > 0
    /\ wq_queued' = wq_queued - 1
    /\ work_pending' = FALSE
    /\ WorkerReset
    /\ w_pc' = IF pisnd_spi_device THEN "peek" ELSE "idle"
    /\ w_running' = IF pisnd_spi_device THEN w_running + 1 ELSE w_running
    /\ UNCHANGED << lifeVars, lineVars, callVars, oops, jiffies, queueVars,
                    ledVars, cbVars, streamVars, obsVars >>

\* "if (g_midi_output_substream && kfifo_avail(&spi_fifo_out) >= sizeof(midibuf))"
PeekAllowedAnyRoom ==
    g_midi_output_substream /\ kfifo_avail(spi_fifo_out) > 0

PeekAllowed ==
    g_midi_output_substream /\ kfifo_avail(spi_fifo_out) >= TRANSFER_SIZE

\* top of the loop: snd_rawmidi_transmit_peek, kfifo_put of each byte,
\* snd_rawmidi_transmit_ack; then "had_data = false; memset(txbuf, 0, ...)"
WorkPeek ==
    /\ w_running' = w_running
    /\ w_pc = "peek"
    /\ IF PeekAllowed
       THEN LET n == Min(TRANSFER_SIZE, Len(substream_buf))
                midibuf == SubSeq(substream_buf, 1, n)
            IN  /\ w_n' = n
                /\ spi_fifo_out' = kfifo_put_all(spi_fifo_out, midibuf)
                /\ substream_buf' = SubSeq(substream_buf, n + 1, Len(substream_buf))
       ELSE UNCHANGED << w_n, spi_fifo_out, substream_buf >>
    /\ had_data' = FALSE
    /\ txbuf' = EmptyBuf
    /\ w_i' = 0
    /\ w_pc' = "build"
    /\ UNCHANGED << out_buffer_used_millibytes, last_transfer_at, rxbuf,
                    spi_fifo_in, g_midi_output_substream, lifeVars, schedVars,
                    lineVars, callVars, oops, jiffies, ledVars, cbVars, obsVars >>

\* the condition of the for loop that fills txbuf
BuildCond ==
    /\ w_i < TRANSFER_SIZE
    /\ (HasHeadroom(out_buffer_used_millibytes) \/ g_ledFlashDurationChanged)

\* one pass of the for loop, up to the test of g_ledFlashDurationChanged; the
\* branch that takes a byte from spi_fifo_out is completed here
WorkBuild ==
    /\ w_running' = w_running
    /\ w_pc = "build"
    /\ IF ~BuildCond
       THEN /\ w_pc' = "xfer"
            /\ UNCHANGED << w_i, txbuf, spi_fifo_out, out_buffer_used_millibytes >>
       ELSE IF g_ledFlashDurationChanged
       THEN /\ w_pc' = "led_read"
            /\ UNCHANGED << w_i, txbuf, spi_fifo_out, out_buffer_used_millibytes >>
       ELSE IF ~kfifo_is_empty(spi_fifo_out)
       THEN /\ txbuf' = [txbuf EXCEPT ![Slot] = << DATA_MARKER, Head(spi_fifo_out) >>]
            /\ spi_fifo_out' = Tail(spi_fifo_out)
            /\ out_buffer_used_millibytes' =
                   AddMillibyte(out_buffer_used_millibytes)
            /\ w_i' = w_i + 2
            /\ w_pc' = "build"
       ELSE /\ w_i' = w_i + 2
            /\ w_pc' = "build"
            /\ UNCHANGED << txbuf, spi_fifo_out, out_buffer_used_millibytes >>
    /\ UNCHANGED << last_transfer_at, had_data, w_n, rxbuf, spi_fifo_in, lifeVars,
                    schedVars, lineVars, callVars, oops, jiffies, ledVars, cbVars,
                    streamVars, obsVars >>

\* "txbuf[i+0] = 0xf0; txbuf[i+1] = g_ledFlashDuration;"
WorkLedRead ==
    /\ w_running' = w_running
    /\ w_pc = "led_read"
    /\ txbuf' = [txbuf EXCEPT ![Slot] = << LED_MARKER, g_ledFlashDuration >>]
    /\ Log(<< << "take", g_ledFlashDuration >> >>)
    /\ w_pc' = "led_zero"
    /\ UNCHANGED << w_i, out_buffer_used_millibytes, last_transfer_at, had_data, w_n,
                    rxbuf, queueVars, ledVars, lifeVars, schedVars, lineVars,
                    callVars, oops, jiffies, cbVars, streamVars, spi_last,
                    dev_total, rx_n, delivered, led_left, tx_left, tx_n, infoVars >>

\* "g_ledFlashDuration = 0;"
WorkLedZero ==
    /\ w_running' = w_running
    /\ w_pc = "led_zero"
    /\ g_ledFlashDuration' = 0
    /\ w_pc' = "led_clear"
    /\ UNCHANGED << w_i, out_buffer_used_millibytes, last_transfer_at, had_data, w_n,
                    txbuf, rxbuf, queueVars, g_ledFlashDurationChanged, lifeVars,
                    schedVars, lineVars, callVars, oops, jiffies, cbVars,
                    streamVars, obsVars >>

\* "g_ledFlashDurationChanged = false;" and the loop's "i += 2"
WorkLedClearKept ==
    /\ w_running' = w_running
    /\ w_pc = "led_clear"
    /\ w_i' = w_i + 2
    /\ w_pc' = "build"
    /\ UNCHANGED << out_buffer_used_millibytes, last_transfer_at, had_data, w_n,
                    txbuf, rxbuf, queueVars, ledVars, lifeVars,
                    schedVars, lineVars, callVars, oops, jiffies, cbVars,
                    streamVars, obsVars >>

WorkLedClear ==
    /\ w_running' = w_running
    /\ w_pc = "led_clear"
    /\ g_ledFlashDurationChanged' = FALSE
    /\ w_i' = w_i + 2
    /\ w_pc' = "build"
    /\ UNCHANGED << out_buffer_used_millibytes, last_transfer_at, had_data, w_n,
                    txbuf, rxbuf, queueVars, g_ledFlashDuration, lifeVars,
                    schedVars, lineVars, callVars, oops, jiffies, cbVars,
                    streamVars, obsVars >>

\* what the device may answer to one block: while it asserts data-available
\* and has bytes left, each slot valid or not
RxChoices ==
    { << v1, v2 >> \in BOOLEAN \X BOOLEAN :
        /\ (v1 \/ v2) => da_level
        /\ (IF v1 THEN 1 ELSE 0) + (IF v2 THEN 1 ELSE 0) <= dev_total - rx_n }

RxBuf(v) ==
    << IF v[1] THEN << 1, RxByte(rx_n + 1) >> ELSE EmptySlot,
       IF v[2] THEN << 1, RxByte(rx_n + (IF v[1] THEN 2 ELSE 1)) >> ELSE EmptySlot >>

RxCount(v) == (IF v[1] THEN 1 ELSE 0) + (IF v[2] THEN 1 ELSE 0)

\* the occupancy estimate after "now = jiffies; if (now != last_transfer_at) ..."
AfterTickNoDecay(used, now, last) == used

AfterTick(used, now, last) ==
    IF now # last THEN Drain(used, Elapsed(now, last)) ELSE used

\* rxbuf after spi_transfer with the device answering v: the memset zeroes
\* it and a spi_sync that returns an error leaves it so
ReceivedStale(err, v) == IF err THEN rxbuf ELSE RxBuf(v)

Received(err, v) == IF err THEN EmptyBuf ELSE RxBuf(v)

\* spi_transfer(txbuf, rxbuf, sizeof(txbuf)) and the update of the estimate.
\* rxbuf is zeroed first; without a device, or when spi_sync fails, it stays
\* zero.  The LED slots of the block are logged as handed to the bus.
WorkTransfer ==
    /\ w_running' = w_running
    /\ w_pc = "xfer"
    /\ IF ~pisnd_spi_device
       THEN /\ rxbuf' = EmptyBuf
            /\ UNCHANGED << spi_last, rx_n, led_log >>
       ELSE /\ Log(LedSent(txbuf))
            /\ \E err \in BOOLEAN :
                 IF err
                 THEN /\ spi_last' = IF led_left = Unobserved THEN "block"
                                      ELSE "failed"
                      /\ \E v \in RxChoices : rxbuf' = Received(TRUE, v)
                      /\ rx_n' = rx_n
                 ELSE /\ spi_last' = "block"
                      /\ \E v \in RxChoices :
                           /\ rxbuf' = Received(FALSE, v)
                           /\ rx_n' = rx_n + RxCount(v)
    /\ out_buffer_used_millibytes' =
           AfterTick(out_buffer_used_millibytes, jiffies, last_transfer_at)
    /\ last_transfer_at' = Epoch /\ jiffies' = Epoch
    /\ w_i' = 0
    /\ w_pc' = "rx"
    /\ UNCHANGED << had_data, w_n, txbuf, queueVars, lifeVars, schedVars, lineVars,
                    callVars, oops, ledVars, cbVars, streamVars,
                    dev_total, delivered, led_left, tx_left, tx_n, infoVars >>

\* pisnd_midi_recv_callback: pisnd_spi_recv until the inbound queue is empty,
\* each chunk handed to snd_rawmidi_receive; it is called from the receive loop
\* "if (kfifo_len(&spi_fifo_in) > 16 && g_recvCallback)"
CallbackDueAtThreshold(q) == Len(q) >= RECV_THRESHOLD /\ g_recvCallback # "NULL"

CallbackDue(q) == Len(q) > RECV_THRESHOLD /\ g_recvCallback # "NULL"

\* one pass of the loop over rxbuf
WorkReceive ==
    /\ w_running' = w_running
    /\ w_pc = "rx"
    /\ IF w_i >= TRANSFER_SIZE
       THEN /\ w_pc' = "cond"
            /\ UNCHANGED << w_i, had_data, spi_fifo_in, delivered >>
       ELSE /\ w_pc' = "rx"
            /\ w_i' = w_i + 2
            /\ IF rxbuf[Slot][1] # 0
               THEN LET q == kfifo_put(spi_fifo_in, rxbuf[Slot][2])
                    IN  /\ had_data' = TRUE
                        /\ IF CallbackDue(q)
                           THEN spi_fifo_in' = << >> /\ delivered' = Append(delivered, q)
                           ELSE spi_fifo_in' = q /\ delivered' = delivered
               ELSE UNCHANGED << had_data, spi_fifo_in, delivered >>
    /\ UNCHANGED << out_buffer_used_millibytes, last_transfer_at, w_n, txbuf,
                    rxbuf,
                    spi_fifo_out, lifeVars, schedVars, lineVars, callVars, oops,
                    jiffies, ledVars, cbVars, streamVars, spi_last, dev_total,
                    rx_n, led_left, led_log, tx_left, tx_n, infoVars >>

\* the condition of "do { ... } while (...)"
LoopCondNoLed ==
    \/ had_data
    \/ ~kfifo_is_empty(spi_fifo_out)
    \/ pisnd_spi_has_more
    \/ out_buffer_used_millibytes # 0

LoopCondNoQueue ==
    \/ had_data
    \/ pisnd_spi_has_more
    \/ g_ledFlashDurationChanged
    \/ out_buffer_used_millibytes # 0

LoopCond ==
    \/ had_data
    \/ ~kfifo_is_empty(spi_fifo_out)
    \/ pisnd_spi_has_more
    \/ g_ledFlashDurationChanged
    \/ out_buffer_used_millibytes # 0

WorkCond ==
    /\ w_running' = w_running
    /\ w_pc = "cond"
    /\ w_pc' = IF LoopCond THEN "peek" ELSE "final"
    /\ UNCHANGED << w_i, out_buffer_used_millibytes, last_transfer_at, had_data, w_n,
                    txbuf, rxbuf, queueVars, lifeVars, schedVars, lineVars,
                    callVars, oops, jiffies, ledVars, cbVars, streamVars, obsVars >>

\* after the loop: "if (!kfifo_is_empty(&spi_fifo_in) && g_recvCallback) ..."
WorkFinal ==
    /\ w_running' = w_running - 1
    /\ w_pc = "final"
    /\ IF ~kfifo_is_empty(spi_fifo_in) /\ g_recvCallback # "NULL"
       THEN spi_fifo_in' = << >> /\ delivered' = Append(delivered, spi_fifo_in)
       ELSE UNCHANGED << spi_fifo_in, delivered >>
    /\ WorkerReset
    /\ w_pc' = "idle"
    /\ UNCHANGED << spi_fifo_out, lifeVars, schedVars, lineVars, callVars, oops,
                    jiffies, ledVars, cbVars, streamVars, spi_last, dev_total,
                    rx_n, led_left, led_log, tx_left, tx_n, infoVars >>

\* The session reads the clock on entry and after each spi_transfer, where it
\* sleeps: the time that passes between two readings is taken there.  The
\* clock is followed while the estimate is under its ceiling.
ClockRuns ==
    /\ ~oops /\ w_pc = "xfer"
    /\ out_buffer_used_millibytes < PISOUND_OUTPUT_BUFFER_SIZE_MILLIBYTES

\* a timer tick; at most MaxElapsed ticks fall between two block exchanges
Tick ==
    /\ ClockRuns
    /\ jiffies[1] < MaxElapsed
    /\ jiffies' = << jiffies[1] + 1, jiffies[2] >>
    /\ UNCHANGED << lifeVars, schedVars, lineVars, callVars, oops, workerVars,
                    queueVars, ledVars, cbVars, streamVars, obsVars >>

\* the worker thread is not scheduled for StallJiffies jiffies (it sleeps in
\* spi_sync, or is preempted, that long) between two block exchanges
Stall ==
    /\ ClockRuns
    /\ jiffies[2] = 0
    /\ jiffies' = << jiffies[1], 1 >>
    /\ UNCHANGED << lifeVars, schedVars, lineVars, callVars, oops, workerVars,
                    queueVars, ledVars, cbVars, streamVars, obsVars >>

(* ------------------------------------------------------------------------ *)
(* spi_read_info: the handshake                                             *)
(* ------------------------------------------------------------------------ *)
\* A word is << high byte, low byte >> of the 16 bits spi_transfer16 returns;
\* the device answers the k-th exchange of the handshake with its k-th word
\* and with zero once it has no more.  A failed spi_sync leaves rxbuf zero.
NoWord == << 0, 0 >>

Word(ws, k) == IF k \in 1..Len(ws) THEN ws[k] ELSE NoWord

\* the answer as the driver receives it when the spi_sync of exchange k fails
BusFailure(ws, k) ==
    IF k \in 1..Len(ws) THEN [ws EXCEPT ![k] = NoWord] ELSE ws

\* spi_read_bytes(dst, length, &n), its first exchange being number pos;
\* next is the number of the exchange that follows the call
spi_read_bytes(ws, pos, length) ==
    LET rx == Word(ws, pos)
        size == rx[2]
        bad == {i \in 1..size : Word(ws, pos + i)[1] = 0}
        first == CHOOSE i \in bad : \A j \in bad : i <= j
    IN  IF rx[1] = 0 \/ size > length
        THEN [ret |-> "EINVAL", dst |-> << >>, next |-> pos + 1]
        ELSE IF bad # {}
        THEN [ret |-> "EINVAL", dst |-> << >>, next |-> pos + first + 1]
        ELSE [ret |-> "0", dst |-> [i \in 1..size |-> Word(ws, pos + i)[2]],
              next |-> pos + size + 1]

\* "%x" and "%02x" of a byte (char is unsigned on the ARM targets of the
\* driver), as sequences of characters
HexDigits == << "0", "1", "2", "3", "4", "5", "6", "7",
                "8", "9", "a", "b", "c", "d", "e", "f" >>

Hex(n) ==
    IF n < 16 THEN << HexDigits[n + 1] >>
    ELSE << HexDigits[(n \div 16) + 1], HexDigits[(n % 16) + 1] >>

Hex02Unpadded(n) == Hex(n)

Hex02(n) == << HexDigits[(n \div 16) + 1], HexDigits[(n % 16) + 1] >>

\* snprintf(dst, size, ...) keeps size - 1 characters
Truncated(str, size) == SubSeq(str, 1, Min(Len(str), size - 1))

\* the string a character array holds: the bytes before the first NUL
CStr(bytes) ==
    LET nul == {i \in 1..Len(bytes) : bytes[i] = 0}
    IN  IF nul = {} THEN bytes
        ELSE SubSeq(bytes, 1, (CHOOSE i \in nul : \A j \in nul : i <= j) - 1)

RECURSIVE HexString(_)
HexString(bytes) ==
    IF bytes = << >> THEN << >> ELSE Hex02(Head(bytes)) \o HexString(Tail(bytes))

\* pisnd_spi_get_fw_version, pisnd_spi_get_serial, pisnd_spi_get_id and
\* pisnd_spi_get_hw_version return the fields; probe prints them and the
\* sysfs attributes show them
pisnd_spi_get_fw_version == g_fw_version
pisnd_spi_get_serial == g_serial_num
pisnd_spi_get_id == g_id
pisnd_spi_get_hw_version == g_hw_version

\* the identity after the memsets and the strcpy at the top of spi_read_info
Cleared == [fw |-> << >>, serial |-> << >>, id |-> << >>, hw |-> << >>]

Preset == [Cleared EXCEPT !.hw = << "1", ".", "0" >>]

\* the body of "switch (i)" for record i holding the n bytes dst; ret is
\* "EINVAL" where the case returns
Decode(i, dst, f) ==
    LET n == Len(dst)
    IN  CASE i = 0 ->
               IF n # 2 THEN [ret |-> "EINVAL", f |-> f]
               ELSE [ret |-> "0",
                     f |-> [f EXCEPT !.fw = Truncated(Hex(dst[1]) \o << "." >>
                                                \o Hex02(dst[2]),
                                                MAX_VERSION_STR_LEN)]]
          [] i = 3 ->
               IF n # 2 THEN [ret |-> "EINVAL", f |-> f]
               ELSE [ret |-> "0",
                     f |-> [f EXCEPT !.hw = Truncated(Hex(dst[1]) \o << "." >>
                                                \o Hex(dst[2]),
                                                MAX_VERSION_STR_LEN)]]
          [] i = 1 ->
               IF n >= SERIAL_SIZE THEN [ret |-> "EINVAL", f |-> f]
               ELSE [ret |-> "0", f |-> [f EXCEPT !.serial = CStr(dst)]]
          [] i = 2 ->
               IF n * 2 >= ID_SIZE THEN [ret |-> "EINVAL", f |-> f]
               ELSE [ret |-> "0", f |-> [f EXCEPT !.id = HexString(dst)]]
          [] OTHER -> [ret |-> "0", f |-> f]

\* "for (i = 0; i < count; ++i)": record i is read from exchange pos on
RECURSIVE ReadRecords(_, _, _, _, _)
ReadRecords(ws, i, count, pos, f) ==
    IF i >= count THEN [ret |-> "0", f |-> f, exchanges |-> pos - 1]
    ELSE LET r == spi_read_bytes(ws, pos, RECORD_MAX)
             d == Decode(i, r.dst, f)
         IN  IF r.ret # "0"
             THEN [ret |-> r.ret, f |-> f, exchanges |-> r.next - 1]
             ELSE IF d.ret # "0"
             THEN [ret |-> d.ret, f |-> f, exchanges |-> r.next - 1]
             ELSE ReadRecords(ws, i + 1, count, r.next, d.f)

\* spi_read_info on the answer ws: its result, the identity it leaves and the
\* number of exchanges it made
spi_read_info(ws) ==
    LET tmp == Word(ws, 1)
    IN  IF tmp[1] = 0 THEN [ret |-> "EINVAL", f |-> Preset, exchanges |-> 1]
        ELSE ReadRecords(ws, 0, tmp[2], 2, Preset)

(* ------------------------------------------------------------------------ *)
(* pisnd_spi_init and pisnd_spi_uninit                                      *)
(* ------------------------------------------------------------------------ *)
\* pisnd_spi_gpio_uninit
GpioUninit == data_available' = FALSE

SetIdentity(f) ==
    /\ g_fw_version' = f.fw /\ g_serial_num' = f.serial
    /\ g_id' = f.id /\ g_hw_version' = f.hw

\* the memsets at the top of pisnd_spi_init, then pisnd_spi_find_device and
\* spi_setup; "return -EPROBE_DEFER" without a device
InitFind ==
    /\ life_pc = "unloaded"
    /\ SetIdentity(Cleared)
    /\ info_n' = 0 /\ info_err' = "none"
    /\ \E found \in BOOLEAN :
         IF found
         THEN /\ pisnd_spi_device' = TRUE
              /\ life_pc' = "i_gpio"
              /\ init_ret' = "running"
         ELSE /\ init_ret' = "EPROBE_DEFER"
              /\ UNCHANGED << pisnd_spi_device, life_pc >>
    /\ UNCHANGED << pisnd_workqueue, irq_on, data_available, schedVars, lineVars,
                    callVars, oops, workerVars, jiffies, queueVars, ledVars,
                    cbVars, streamVars, spi_last, dev_total, rx_n, delivered,
                    led_left, led_log, tx_left, tx_n, dev_info >>

\* pisnd_spi_gpio_init, which returns 0
InitGpio ==
    /\ life_pc = "i_gpio"
    /\ data_available' = TRUE
    /\ life_pc' = "i_info"
    /\ UNCHANGED << init_ret, pisnd_spi_device, pisnd_workqueue, irq_on,
                    schedVars, lineVars, callVars, oops, workerVars, jiffies,
                    queueVars, ledVars, cbVars, streamVars, obsVars >>

\* the handshake in which the spi_sync of exchange fail fails (0: none does)
Handshake(fail) == spi_read_info(BusFailure(dev_info, fail))

InfoRun(fail) ==
    /\ SetIdentity(Handshake(fail).f)
    /\ info_n' = Handshake(fail).exchanges
    /\ info_err' = IF fail > 0 THEN "bus"
                   ELSE IF Handshake(fail).ret # "0" THEN "protocol"
                   ELSE "none"

\* "ret = spi_read_info(); if (ret < 0) { ...; return ret; }"
InitInfoNoReturn ==
    /\ life_pc = "i_info"
    /\ spi_last' = "info"
    /\ \E fail \in 0..Handshake(0).exchanges :
         /\ InfoRun(fail)
         /\ init_ret' = IF Handshake(fail).ret = "0" THEN init_ret
                        ELSE Handshake(fail).ret
         /\ life_pc' = "i_flash"
         /\ UNCHANGED << pisnd_spi_device, data_available >>
    /\ UNCHANGED << pisnd_workqueue, irq_on, schedVars, lineVars, callVars, oops,
                    workerVars, jiffies, queueVars, ledVars, cbVars, streamVars,
                    dev_total, rx_n, delivered, led_left, led_log, tx_left, tx_n,
                    dev_info >>

InitInfo ==
    /\ life_pc = "i_info"
    /\ spi_last' = "info"
    /\ \E fail \in 0..Handshake(0).exchanges :
         /\ InfoRun(fail)
         /\ IF Handshake(fail).ret = "0"
            THEN /\ life_pc' = "i_flash"
                 /\ UNCHANGED << init_ret, pisnd_spi_device, data_available >>
            ELSE /\ pisnd_spi_device' = FALSE
                 /\ GpioUninit
                 /\ init_ret' = Handshake(fail).ret
                 /\ life_pc' = "unloaded"
    /\ UNCHANGED << pisnd_workqueue, irq_on, schedVars, lineVars, callVars, oops,
                    workerVars, jiffies, queueVars, ledVars, cbVars, streamVars,
                    dev_total, rx_n, delivered, led_left, led_log, tx_left, tx_n,
                    dev_info >>

\* "spi_transfer16(0xf008)"
InitFlash ==
    /\ life_pc = "i_flash"
    /\ spi_last' = IF pisnd_spi_device THEN "flash" ELSE spi_last
    /\ life_pc' = "i_irq"
    /\ UNCHANGED << init_ret, pisnd_spi_device, pisnd_workqueue, irq_on,
                    data_available, schedVars, lineVars, callVars, oops,
                    workerVars, jiffies, queueVars, ledVars, cbVars, streamVars,
                    dev_total, rx_n, delivered, led_left, led_log, tx_left, tx_n, infoVars >>

\* pisnd_spi_gpio_irq_init; when it fails the handles are released and the
\* function goes on to pisnd_init_workqueues
InitIrq ==
    /\ life_pc = "i_irq"
    /\ \E ok \in BOOLEAN :
         IF ok
         THEN /\ irq_on' = TRUE
              /\ UNCHANGED << pisnd_spi_device, data_available >>
         ELSE /\ pisnd_spi_device' = FALSE
              /\ GpioUninit
              /\ irq_on' = FALSE
    /\ irq_latch' = FALSE
    /\ life_pc' = "i_wq"
    /\ UNCHANGED << init_ret, pisnd_workqueue, da_level, schedVars, callVars,
                    oops, workerVars, jiffies, queueVars, ledVars, cbVars,
                    streamVars, obsVars >>

\* pisnd_init_workqueues: create_singlethread_workqueue and INIT_WORK
pisnd_init_workqueues ==
    /\ life_pc = "i_wq"
    /\ pisnd_workqueue' = "live"
    /\ work_pending' = FALSE
    /\ wq_queued' = 0
    /\ life_pc' = "i_sched"
    /\ UNCHANGED << init_ret, pisnd_spi_device, irq_on, data_available, lineVars,
                    callVars, oops, workerVars, jiffies, queueVars, ledVars,
                    cbVars, streamVars, obsVars >>

\* "if (pisnd_spi_has_more()) pisnd_schedule_process(TASK_PROCESS);"
InitScheduleSkipped ==
    /\ life_pc = "i_sched"
    /\ life_pc' = "i_ret"
    /\ UNCHANGED << init_ret, pisnd_spi_device, pisnd_workqueue, irq_on,
                    data_available, schedVars, lineVars, callVars, oops,
                    workerVars, jiffies, queueVars, ledVars, cbVars, streamVars,
                    obsVars >>

InitSchedule ==
    /\ life_pc = "i_sched"
    /\ IF pisnd_spi_has_more
       THEN life_pc' = "i_ret" /\ SetPc("init", "sched")
       ELSE life_pc' = "i_ret" /\ UNCHANGED call_pc
    /\ UNCHANGED << init_ret, pisnd_spi_device, pisnd_workqueue, irq_on,
                    data_available, schedVars, lineVars, led_arg, oops,
                    workerVars, jiffies, queueVars, ledVars, cbVars, streamVars,
                    obsVars >>

\* "return 0"
InitReturn ==
    /\ life_pc = "i_ret" /\ call_pc["init"] = "idle"
    /\ init_ret' = "0"
    /\ life_pc' = "loaded"
    /\ UNCHANGED << pisnd_spi_device, pisnd_workqueue, irq_on, data_available,
                    schedVars, lineVars, callVars, oops, workerVars, jiffies,
                    queueVars, ledVars, cbVars, streamVars, obsVars >>

\* pisnd_remove (or a later failure of pisnd_probe) removes the sysfs
\* attributes and calls pisnd_spi_uninit
Remove ==
    /\ life_pc = "loaded" /\ call_pc["led"] = "idle"
    /\ life_pc' = "u_flush"
    /\ UNCHANGED << init_ret, pisnd_spi_device, pisnd_workqueue, irq_on,
                    data_available, schedVars, lineVars, callVars, oops,
                    workerVars, jiffies, queueVars, ledVars, cbVars, streamVars,
                    obsVars >>

\* flush_workqueue returns once nothing is queued and no handler runs
WorkqueueQuiet == wq_queued = 0 /\ w_running = 0

\* pisnd_uninit_workqueues: flush_workqueue
UninitFlush ==
    /\ life_pc = "u_flush" /\ WorkqueueQuiet
    /\ life_pc' = "u_destroy"
    /\ UNCHANGED << init_ret, pisnd_spi_device, pisnd_workqueue, irq_on,
                    data_available, schedVars, lineVars, callVars, oops,
                    workerVars, jiffies, queueVars, ledVars, cbVars, streamVars,
                    obsVars >>

\* pisnd_uninit_workqueues: destroy_workqueue (drains, then frees the queue)
UninitDestroy ==
    /\ life_pc = "u_destroy" /\ WorkqueueQuiet
    /\ pisnd_workqueue' = "dead"
    /\ life_pc' = "u_null"
    /\ UNCHANGED << init_ret, pisnd_spi_device, irq_on, data_available,
                    schedVars, lineVars, callVars, oops, workerVars, jiffies,
                    queueVars, ledVars, cbVars, streamVars, obsVars >>

\* pisnd_uninit_workqueues: "pisnd_workqueue = NULL"
UninitNull ==
    /\ life_pc = "u_null"
    /\ pisnd_workqueue' = "NULL"
    /\ life_pc' = "u_dev"
    /\ UNCHANGED << init_ret, pisnd_spi_device, irq_on, data_available,
                    schedVars, lineVars, callVars, oops, workerVars, jiffies,
                    queueVars, ledVars, cbVars, streamVars, obsVars >>

\* "spi_dev_put(pisnd_spi_device); pisnd_spi_device = NULL;"
UninitDevice ==
    /\ life_pc = "u_dev"
    /\ pisnd_spi_device' = FALSE
    /\ life_pc' = "u_irq"
    /\ UNCHANGED << init_ret, pisnd_workqueue, irq_on, data_available, schedVars,
                    lineVars, callVars, oops, workerVars, jiffies, queueVars,
                    ledVars, cbVars, streamVars, obsVars >>

\* pisnd_spi_gpio_irq_uninit: free_irq waits for a running handler thread
UninitIrq ==
    /\ life_pc = "u_irq" /\ call_pc["irq"] = "idle"
    /\ irq_on' = FALSE
    /\ irq_latch' = FALSE
    /\ life_pc' = "u_gpio"
    /\ UNCHANGED << init_ret, pisnd_spi_device, pisnd_workqueue, data_available,
                    da_level, schedVars, callVars, oops, workerVars, jiffies,
                    queueVars, ledVars, cbVars, streamVars, obsVars >>

\* pisnd_spi_gpio_uninit
UninitGpio ==
    /\ life_pc = "u_gpio"
    /\ GpioUninit
    /\ life_pc' = "unloaded"
    /\ UNCHANGED << init_ret, pisnd_spi_device, pisnd_workqueue, irq_on,
                    schedVars, lineVars, callVars, oops, workerVars, jiffies,
                    queueVars, ledVars, cbVars, streamVars, obsVars >>

(* ------------------------------------------------------------------------ *)
(* Initial states                                                           *)
(* ------------------------------------------------------------------------ *)
\* the module's statics before the first probe, the inbound queue and the
\* output stream apart
StaticsCore ==
    /\ work_pending = FALSE /\ wq_queued = 0
    /\ irq_latch = FALSE /\ da_level = FALSE
    /\ led_arg = 0 /\ oops = FALSE
    /\ w_running = 0 /\ w_pc = "idle" /\ w_i = 0
    /\ out_buffer_used_millibytes = 0
    /\ jiffies = Epoch /\ last_transfer_at = Epoch
    /\ had_data = FALSE /\ w_n = 0
    /\ txbuf = EmptyBuf /\ rxbuf = EmptyBuf
    /\ spi_fifo_out = << >>
    /\ g_ledFlashDuration = 0 /\ g_ledFlashDurationChanged = FALSE
    /\ g_recvCallback = "NULL" /\ g_recvData = "NULL"
    /\ delivered = << >> /\ led_log = << >>
    /\ info_err = "none"

NoInbound == spi_fifo_in = << >> /\ rx_n = 0

NoCalls == call_pc = [c \in Ctx |-> "idle"]

\* the one call in progress is that of context c, about to enter
\* pisnd_schedule_process
Calling(c) == call_pc = [x \in Ctx |-> IF x = c THEN "sched" ELSE "idle"]

NoStream ==
    /\ g_midi_output_substream = FALSE /\ substream_buf = << >> /\ tx_n = 0

\* the MIDI output stream is open and the application has written n bytes
StreamOpen(n) ==
    /\ g_midi_output_substream = TRUE
    /\ substream_buf = [k \in 1..n |-> TxByte(k)]
    /\ tx_n = n

Statics == StaticsCore /\ NoInbound /\ NoStream /\ NoCalls

\* the identity fields hold f
Identity(f) ==
    /\ g_fw_version = f.fw /\ g_serial_num = f.serial
    /\ g_id = f.id /\ g_hw_version = f.hw

\* a record as the device sends it: its length, then its bytes
Record(bytes) ==
    << << 1, Len(bytes) >> >> \o [i \in 1..Len(bytes) |-> << 1, bytes[i] >>]

RECURSIVE Records(_)
Records(recs) ==
    IF recs = << >> THEN << >> ELSE Record(Head(recs)) \o Records(Tail(recs))

\* the answer of a device with the records recs: their count, then each one
Answer(recs) == << << 1, Len(recs) >> >> \o Records(recs)

\* the records of the reference device: firmware version 1.02, serial
\* "ABC1234567" (in ASCII), id dead, hardware version 1.0
RefRecords ==
    << << 1, 2 >>, << 65, 66, 67, 49, 50, 51, 52, 53, 54, 55 >>,
       << 222, 173 >>, << 1, 0 >> >>

Unloaded ==
    /\ life_pc = "unloaded" /\ init_ret = "none"
    /\ pisnd_spi_device = FALSE /\ pisnd_workqueue = "NULL"
    /\ irq_on = FALSE /\ data_available = FALSE
    /\ spi_last = "none"
    /\ Identity(Cleared) /\ info_n = 0

\* the state pisnd_spi_init leaves when every step succeeded and the line is low
Loaded ==
    /\ life_pc = "loaded" /\ init_ret = "0"
    /\ pisnd_spi_device = TRUE /\ pisnd_workqueue = "live"
    /\ irq_on = TRUE /\ data_available = TRUE
    /\ spi_last = "flash"
    /\ dev_info = Answer(RefRecords)
    /\ Identity(spi_read_info(dev_info).f)
    /\ info_n = spi_read_info(dev_info).exchanges

\* what the environment will do: bytes the device sends, LED calls, bytes the
\* application writes
Env(rx, led, tx) == dev_total = rx /\ led_left = led /\ tx_left = tx

(* ------------------------------------------------------------------------ *)
(* Spec: start and stop, the interrupt, the MIDI output trigger, the worker *)
(* ------------------------------------------------------------------------ *)
Init == Statics /\ Unloaded /\ Env(MaxRx, 0, 0) /\ dev_info = Answer(RefRecords)

Next ==
    \/ InitFind \/ InitGpio \/ InitInfo \/ InitFlash \/ InitIrq
    \/ pisnd_init_workqueues \/ InitSchedule \/ InitReturn
    \/ Remove
    \/ UninitFlush \/ UninitDestroy \/ UninitNull \/ UninitDevice
    \/ UninitIrq \/ UninitGpio
    \/ DevRaise \/ DevLower \/ data_available_interrupt_handler
    \/ pisnd_output_open \/ pisnd_output_close \/ pisnd_output_trigger
    \/ \E c \in Ctx : SchedCheck(c)
    \/ \E c \in Ctx : QueueWork(c)
    \/ WorkStart \/ WorkPeek \/ WorkBuild \/ WorkTransfer \/ WorkReceive
    \/ WorkCond \/ WorkFinal

Spec == Init /\ [][Next]_vars

(* ------------------------------------------------------------------------ *)
(* SpecInfo: pisnd_spi_init, repeated after a failure, against each of a    *)
(* set of devices: the reference device with its first records only and     *)
(* with further records, a device with one malformed record, and a device   *)
(* that leaves the validity byte of one word unset.  Any one spi_sync of    *)
(* the handshake may fail.                                                  *)
(* ------------------------------------------------------------------------ *)
\* the first n records of the reference device followed by one-byte records
DeviceRecords(n) ==
    [i \in 1..n |-> IF i <= Len(RefRecords) THEN RefRecords[i] ELSE << i >>]

\* record i (from 0) of the reference device replaced by a malformed one: a
\* version of 1 or of 3 bytes, a serial of SERIAL_SIZE bytes, an id of which
\* the text would fill g_id
Malformed ==
    { [RefRecords EXCEPT ![1] = << 1 >>],
      [RefRecords EXCEPT ![1] = << 1, 2, 3 >>],
      [RefRecords EXCEPT ![2] = [i \in 1..SERIAL_SIZE |-> 48 + (i % 10)]],
      [RefRecords EXCEPT ![3] = [i \in 1..(ID_SIZE \div 2) + 1 |-> 16 * i]],
      [RefRecords EXCEPT ![4] = << 1 >>],
      [RefRecords EXCEPT ![4] = << 1, 0, 0 >>] }

\* the answer ws with the validity byte of word k unset
Unset(ws, k) == [ws EXCEPT ![k] = << 0, ws[k][2] >>]

InfoDevices ==
    {Answer(DeviceRecords(n)) : n \in 0..MaxRecords}
      \cup {Answer(recs) : recs \in Malformed}
      \cup {Unset(Answer(RefRecords), k) : k \in 1..Len(Answer(RefRecords))}
      \cup {<< << 1, MaxRecords >> >>}

InitInfoSpec ==
    /\ Statics /\ Unloaded /\ Env(0, 0, 0)
    /\ dev_info \in InfoDevices

NextInfo ==
    \/ InitFind \/ InitGpio \/ InitInfo \/ InitFlash \/ InitIrq
    \/ pisnd_init_workqueues \/ InitSchedule \/ InitReturn

SpecInfo == InitInfoSpec /\ [][NextInfo]_vars

(* ------------------------------------------------------------------------ *)
(* SpecSched: the started transport with the callers of                     *)
(* pisnd_schedule_process running against the worker: the interrupt, any    *)
(* number of LED calls, the output trigger and the input trigger.  The      *)
(* duration of an LED call plays no part in the scheduling: one value is    *)
(* used.                                                                    *)
(* ------------------------------------------------------------------------ *)
InitSched ==
    /\ Statics /\ Loaded /\ Env(0, Unobserved, 0)

NextSched ==
    \/ DevRaise \/ DevLower \/ data_available_interrupt_handler
    \/ FlashLedsDuration(5)
    \/ FlashLedsChanged
    \/ pisnd_output_open \/ pisnd_output_trigger
    \/ \E up \in BOOLEAN : InputTriggerData(up)
    \/ InputTriggerCallback
    \/ \E c \in Ctx : SchedCheck(c)
    \/ \E c \in Ctx : QueueWork(c)
    \/ WorkStart \/ WorkPeek \/ WorkBuild \/ WorkLedRead \/ WorkLedZero
    \/ WorkLedClear \/ WorkTransfer \/ WorkReceive \/ WorkCond \/ WorkFinal

SpecSched == InitSched /\ [][NextSched]_vars

(* ------------------------------------------------------------------------ *)
(* SpecStore: texts of up to MaxLedText characters are written to the led   *)
(* attribute of the started transport, any number of times, up to the       *)
(* request for work; the worker thread does not get to run                  *)
(* ------------------------------------------------------------------------ *)
LedTexts ==
    UNION { [1..n -> {"0", "2", "5", "6", "+", "-", "nl"}] : n \in 0..MaxLedText }

NextStore ==
    \/ \E buf \in LedTexts : pisnd_led_store(buf)
    \/ LedStoreParse
    \/ FlashLedsChanged
    \/ \E c \in Ctx : SchedCheck(c)
    \/ \E c \in Ctx : QueueWork(c)

SpecStore == InitSched /\ [][NextStore]_vars

(* ------------------------------------------------------------------------ *)
(* SpecLoop: sessions in which each term of the loop condition comes up: the *)
(* device sends, a byte waits in the output stream, any number of LED calls *)
(* is made and the clock ticks                                              *)
(* ------------------------------------------------------------------------ *)
NextLoop ==
    \/ DevRaise \/ DevLower \/ data_available_interrupt_handler
    \/ FlashLedsDuration(5)
    \/ FlashLedsChanged
    \/ \E c \in Ctx : SchedCheck(c)
    \/ \E c \in Ctx : QueueWork(c)
    \/ WorkStart \/ WorkPeek \/ WorkBuild \/ WorkLedRead \/ WorkLedZero
    \/ WorkLedClear \/ WorkTransfer \/ WorkReceive \/ WorkCond \/ WorkFinal
    \/ Tick

InitLoop ==
    /\ StaticsCore /\ NoInbound /\ NoCalls /\ StreamOpen(MaxTxShort) /\ Loaded
    /\ Env(MaxRx, Unobserved, 0)

SpecLoop == InitLoop /\ [][NextLoop]_vars

(* ------------------------------------------------------------------------ *)
(* SpecIntake: a session at the top of its loop with the outbound queue     *)
(* five bytes short of full after a long write, MaxTx more bytes waiting in *)
(* the output stream and the estimate drained to 0; the clock stands still, *)
(* so that the session goes on until the headroom is used up and never      *)
(* leaves its loop                                                          *)
(* ------------------------------------------------------------------------ *)
NextIntake ==
    \/ pisnd_output_trigger \/ pisnd_output_close
    \/ \E c \in Ctx : SchedCheck(c)
    \/ \E c \in Ctx : QueueWork(c)
    \/ WorkPeek \/ WorkBuild \/ WorkTransfer \/ WorkReceive \/ WorkCond

InitIntake ==
    /\ NoInbound /\ NoCalls /\ Loaded /\ Env(0, 0, 0)
    /\ work_pending = FALSE /\ wq_queued = 0
    /\ irq_latch = FALSE /\ da_level = FALSE
    /\ led_arg = 0 /\ oops = FALSE
    /\ w_running = 1 /\ w_pc = "peek" /\ w_i = TRANSFER_SIZE
    /\ out_buffer_used_millibytes = 0
    /\ jiffies = Epoch /\ last_transfer_at = Epoch
    /\ had_data = FALSE /\ w_n = 0
    /\ txbuf = EmptyBuf /\ rxbuf = EmptyBuf
    /\ spi_fifo_out = [k \in 1..(FIFO_SIZE - 5) |-> TxByte(k)]
    /\ g_midi_output_substream = TRUE
    /\ substream_buf = [k \in 1..MaxTx |-> TxByte(FIFO_SIZE - 5 + k)]
    /\ tx_n = FIFO_SIZE - 5 + MaxTx
    /\ g_ledFlashDuration = 0 /\ g_ledFlashDurationChanged = FALSE
    /\ g_recvCallback = "NULL" /\ g_recvData = "NULL"
    /\ delivered = << >> /\ led_log = << >>
    /\ info_err = "none"

SpecIntake == InitIntake /\ [][NextIntake]_vars

(* ------------------------------------------------------------------------ *)
(* SpecExcl: interrupt edges, any number of LED calls, output triggers and  *)
(* drains of the open output stream, to which the application has written   *)
(* MaxTxShort bytes, against the worker, the clock ticking                  *)
(* ------------------------------------------------------------------------ *)
InitExcl ==
    /\ StaticsCore /\ NoInbound /\ NoCalls /\ StreamOpen(MaxTxShort) /\ Loaded
    /\ Env(0, Unobserved, 0)

NextExcl ==
    \/ DevRaise \/ DevLower \/ data_available_interrupt_handler
    \/ FlashLedsDuration(5)
    \/ FlashLedsChanged
    \/ pisnd_output_trigger
    \/ FlushTest \/ FlushWorkqueue
    \/ \E c \in Ctx : SchedCheck(c)
    \/ \E c \in Ctx : QueueWork(c)
    \/ WorkStart \/ WorkPeek \/ WorkBuild \/ WorkLedRead \/ WorkLedZero
    \/ WorkLedClear \/ WorkTransfer \/ WorkReceive \/ WorkCond \/ WorkFinal
    \/ Tick

SpecExcl == InitExcl /\ [][NextExcl]_vars

(* ------------------------------------------------------------------------ *)
(* SpecLed: MaxLedCalls calls of pisnd_spi_flash_leds, one after the other, *)
(* against the worker                                                       *)
(* ------------------------------------------------------------------------ *)
InitLed ==
    /\ Statics /\ Loaded /\ Env(0, MaxLedCalls, 0)

NextLed ==
    \/ \E d \in Durations : FlashLedsDuration(d)
    \/ FlashLedsChanged
    \/ \E c \in Ctx : SchedCheck(c)
    \/ \E c \in Ctx : QueueWork(c)
    \/ WorkStart \/ WorkPeek \/ WorkBuild \/ WorkLedRead \/ WorkLedZero
    \/ WorkLedClear \/ WorkTransfer \/ WorkReceive \/ WorkCond \/ WorkFinal

SpecLed == InitLed /\ [][NextLed]_vars

(* ------------------------------------------------------------------------ *)
(* SpecRx: the device sends MaxRxLong bytes while the MIDI input stream is  *)
(* triggered on and off                                                     *)
(* ------------------------------------------------------------------------ *)
InitRx ==
    /\ Statics /\ Loaded /\ Env(MaxRxLong, 0, 0)

NextRx ==
    \/ DevRaise \/ DevLower \/ data_available_interrupt_handler
    \/ \E up \in BOOLEAN : InputTriggerData(up)
    \/ InputTriggerCallback
    \/ \E c \in Ctx : SchedCheck(c)
    \/ \E c \in Ctx : QueueWork(c)
    \/ WorkStart \/ WorkPeek \/ WorkBuild \/ WorkTransfer \/ WorkReceive
    \/ WorkCond \/ WorkFinal

SpecRx == InitRx /\ [][NextRx]_vars

(* ------------------------------------------------------------------------ *)
(* SpecRxFull: the same, from the state reached when the device has sent    *)
(* FIFO_SIZE - 1 bytes and the MIDI input stream was never triggered        *)
(* ------------------------------------------------------------------------ *)
InboundBacklog == [k \in 1..(FIFO_SIZE - 1) |-> RxByte(k)]

InitRxFull ==
    /\ StaticsCore /\ NoStream /\ NoCalls /\ Loaded
    /\ spi_fifo_in = InboundBacklog /\ rx_n = FIFO_SIZE - 1
    /\ Env(FIFO_SIZE + MaxRx, 0, 0)

SpecRxFull == InitRxFull /\ [][NextRx]_vars

(* ------------------------------------------------------------------------ *)
(* SpecFifo: both queues in use: the inbound queue one byte short of full   *)
(* as in SpecRxFull, and MaxTxShort bytes written to the open output stream *)
(* ------------------------------------------------------------------------ *)
InitFifo ==
    /\ StaticsCore /\ NoCalls /\ StreamOpen(MaxTxShort) /\ Loaded
    /\ spi_fifo_in = InboundBacklog /\ rx_n = FIFO_SIZE - 1
    /\ Env(FIFO_SIZE + MaxRx, 0, 0)

NextFifo == NextRx \/ Tick

SpecFifo == InitFifo /\ [][NextFifo]_vars

(* ------------------------------------------------------------------------ *)
(* SpecDrain: the application has written MaxTx bytes to the open output    *)
(* stream; it triggers, drains and closes it while the clock ticks.  The    *)
(* worker thread and the clock are fair.                                    *)
(* ------------------------------------------------------------------------ *)
InitDrain ==
    /\ StaticsCore /\ NoInbound /\ NoCalls /\ StreamOpen(MaxTx) /\ Loaded
    /\ Env(0, 0, 0)

NextDrain ==
    \/ pisnd_output_trigger \/ pisnd_output_close
    \/ FlushTest \/ FlushWorkqueue
    \/ \E c \in Ctx : SchedCheck(c)
    \/ \E c \in Ctx : QueueWork(c)
    \/ WorkStart \/ WorkPeek \/ WorkBuild \/ WorkTransfer \/ WorkReceive
    \/ WorkCond \/ WorkFinal
    \/ Tick

WorkerFair ==
    /\ WF_vars(WorkStart) /\ WF_vars(WorkPeek) /\ WF_vars(WorkBuild)
    /\ WF_vars(WorkTransfer) /\ WF_vars(WorkReceive) /\ WF_vars(WorkCond)
    /\ WF_vars(WorkFinal)

SpecDrain == InitDrain /\ [][NextDrain]_vars /\ WorkerFair /\ SF_vars(Tick)

(* ------------------------------------------------------------------------ *)
(* SpecOcc: the application has written MaxTxLong bytes in one write, whose *)
(* call of the output trigger is in progress; the session sends them while  *)
(* the clock ticks and the worker thread can stall                          *)
(* ------------------------------------------------------------------------ *)
InitOcc ==
    /\ StaticsCore /\ NoInbound /\ StreamOpen(MaxTxLong) /\ Loaded
    /\ Calling("out")
    /\ Env(0, 0, 0)

NextOcc ==
    \/ \E c \in Ctx : SchedCheck(c)
    \/ \E c \in Ctx : QueueWork(c)
    \/ WorkStart \/ WorkPeek \/ WorkBuild \/ WorkTransfer \/ WorkReceive
    \/ WorkCond \/ WorkFinal
    \/ Tick \/ Stall

SpecOcc == InitOcc /\ [][NextOcc]_vars

(* ------------------------------------------------------------------------ *)
(* SpecOrder: a session at the top of its loop that has sent OrderSent bytes *)
(* within one jiffy, so that the estimate is three bytes short of the       *)
(* ceiling, with MaxTx more bytes waiting in the output stream; LED calls   *)
(* are made and the clock ticks, so that blocks with data slots, LED slots, *)
(* empty slots and stalls for headroom all occur                            *)
(* ------------------------------------------------------------------------ *)
OrderSent == (PISOUND_OUTPUT_BUFFER_SIZE_MILLIBYTES \div MILLIBYTES_PER_BYTE) - 3

InitOrder ==
    /\ NoInbound /\ NoCalls /\ Loaded /\ Env(0, Unobserved, 0)
    /\ work_pending = FALSE /\ wq_queued = 0
    /\ irq_latch = FALSE /\ da_level = FALSE
    /\ led_arg = 0 /\ oops = FALSE
    /\ w_running = 1 /\ w_pc = "peek" /\ w_i = TRANSFER_SIZE
    /\ out_buffer_used_millibytes = OrderSent * MILLIBYTES_PER_BYTE
    /\ jiffies = Epoch /\ last_transfer_at = Epoch
    /\ had_data = FALSE /\ w_n = 0
    /\ txbuf = EmptyBuf /\ rxbuf = EmptyBuf
    /\ spi_fifo_out = << >>
    /\ g_midi_output_substream = TRUE
    /\ substream_buf = [k \in 1..MaxTx |-> TxByte(OrderSent + k)]
    /\ tx_n = OrderSent + MaxTx
    /\ g_ledFlashDuration = 0 /\ g_ledFlashDurationChanged = FALSE
    /\ g_recvCallback = "NULL" /\ g_recvData = "NULL"
    /\ delivered = << >> /\ led_log = << >>
    /\ info_err = "none"

NextOrder ==
    \/ pisnd_output_trigger
    \/ FlashLedsDuration(5)
    \/ FlashLedsChanged
    \/ \E c \in Ctx : SchedCheck(c)
    \/ \E c \in Ctx : QueueWork(c)
    \/ WorkStart \/ WorkPeek \/ WorkBuild \/ WorkLedRead \/ WorkLedZero
    \/ WorkLedClear \/ WorkTransfer \/ WorkReceive \/ WorkCond \/ WorkFinal
    \/ Tick

SpecOrder == InitOrder /\ [][NextOrder]_vars

(* ------------------------------------------------------------------------ *)
(* Claims                                                                   *)
(* ------------------------------------------------------------------------ *)

\* C1: however many calls of pisnd_schedule_process are made while a session
\* is queued or running, the work item is in the queue at most once, and it is
\* in the queue exactly when its pending bit is set.
C1_Coalesced ==
    /\ wq_queued <= 1
    /\ work_pending <=> wq_queued = 1

\* a session runs, a further run is queued, and a caller that passed the test
\* of work_pending before is about to call queue_work
C1_Witness ==
    /\ w_running = 1 /\ wq_queued = 1
    /\ \E c \in Ctx : call_pc[c] = "queue"

\* C2: at most one execution of pisnd_work_handler is in progress, and the
\* worker is inside the handler exactly when one is.
C2_OneSession ==
    /\ w_running <= 1
    /\ w_running = 1 <=> w_pc # "idle"

\* a session is in its loop while a run is queued, the interrupt handler, the
\* LED store and the output trigger are inside pisnd_schedule_process and a
\* drain waits in flush_workqueue
C2_Witness ==
    /\ w_pc = "xfer" /\ wq_queued = 1
    /\ call_pc["irq"] # "idle" /\ call_pc["led"] # "idle"
    /\ call_pc["out"] # "idle" /\ call_pc["drain"] = "fl_wait"

\* C3: while the transport is started and the data-available line is
\* asserted, a session is running that has not yet made its last test of the
\* line, or a run is queued, or the interrupt that will queue one is pending
\* or in progress.
Started == life_pc = "loaded" /\ pisnd_spi_device

C3_NoMissedTrigger ==
    (Started /\ pisnd_spi_has_more) =>
        \/ w_pc \in {"peek", "build", "led_read", "led_zero", "led_clear",
                     "xfer", "rx", "cond"}
        \/ wq_queued > 0
        \/ irq_latch
        \/ call_pc["irq"] \in {"sched", "queue"}

\* the line rose after the session's last test of it, and a fresh run is queued
C3_Witness ==
    /\ Started /\ pisnd_spi_has_more
    /\ w_pc = "final" /\ wq_queued = 1

\* C4: once pisnd_spi_uninit has flushed the work queue, the interrupt is
\* disabled, no work request is accepted, no session runs and nothing faults.
AfterFlush == {"u_destroy", "u_null", "u_dev", "u_irq", "u_gpio", "halt"}

C4_TeardownOrder ==
    life_pc \in AfterFlush =>
        /\ wq_queued = 0 /\ ~work_pending /\ w_running = 0
        /\ ~oops

\* C5: until spi_read_info has succeeded the interrupt is not registered and
\* no session is queued or runs; after it failed, pisnd_spi_init has returned
\* with the handles released, and the handshake was the last bus exchange.
C5_HandshakeFirst ==
    /\ life_pc \in {"i_gpio", "i_info"} =>
           ~irq_on /\ wq_queued = 0 /\ w_running = 0
    /\ init_ret = "EINVAL" =>
           /\ life_pc \in {"unloaded", "halt"} /\ spi_last = "info"
           /\ ~pisnd_spi_device /\ ~data_available /\ ~irq_on
           /\ wq_queued = 0 /\ w_running = 0

\* a second start fails in the handshake after a first start, a session and a stop
C5_Witness ==
    /\ init_ret = "EINVAL" /\ life_pc = "unloaded"
    /\ rx_n > 0

\* C6: a session whose outbound queue holds 10 bytes, with nothing left in
\* the output stream and nothing more to be written to it, no LED request and
\* a silent device, empties the queue and ends, the clock ticking.
NoMoreOutput ==
    /\ substream_buf = << >>
    /\ tx_left = 0 \/ ~g_midi_output_substream

C6_SessionTerminates ==
    (Len(spi_fifo_out) = 10 /\ w_pc # "idle" /\ NoMoreOutput)
        ~> (w_pc = "idle" /\ spi_fifo_out = << >>)

\* the session has taken the last of the 16 bytes written from the stream and
\* is about to build a block with 10 bytes queued
C6_Witness ==
    /\ Len(spi_fifo_out) = 10 /\ w_pc = "build" /\ NoMoreOutput
    /\ ~g_ledFlashDurationChanged /\ ~da_level

\* C7: when pisnd_spi_flash_leds(5) and then pisnd_spi_flash_leds(10) have
\* returned their writes before the session took the request, the session
\* takes the duration 10 once and sends one LED slot carrying 10, and nothing
\* else up to the next call; once the transport is quiet that slot has been
\* sent.  In general the session takes the request at most once per call, and
\* sends each slot it filled at most once.
TwoCalls == << << "call", 5 >>, << "req", 5 >>, << "call", 10 >>, << "req", 10 >> >>

LogCount(kind) == Cardinality({k \in 1..Len(led_log) : led_log[k][1] = kind})

\* the entries of led_log after the first four, up to the next call
AfterTwoCalls ==
    LET rest == SubSeq(led_log, 5, Len(led_log))
        calls == {k \in 1..Len(rest) : rest[k][1] = "call"}
        stop == IF calls = {} THEN Len(rest) + 1
                ELSE CHOOSE k \in calls : \A j \in calls : k <= j
    IN  SubSeq(rest, 1, stop - 1)

Quiet ==
    /\ w_pc = "idle" /\ wq_queued = 0 /\ ~irq_latch
    /\ \A c \in Ctx : call_pc[c] = "idle"

C7_LastWriteWins ==
    /\ (Len(led_log) >= 4 /\ SubSeq(led_log, 1, 4) = TwoCalls) =>
           /\ AfterTwoCalls \in { << >>, << << "take", 10 >> >>,
                                  << << "take", 10 >>, << "sent", 10 >> >> }
           /\ (Quiet /\ Len(led_log) <= 6) =>
                  led_log = TwoCalls \o << << "take", 10 >>, << "sent", 10 >> >>
    /\ LogCount("take") <= LogCount("req")
    /\ LogCount("sent") <= LogCount("take")

\* both calls were made before the session ran, the slot with 10 has gone to
\* the bus, the flag is cleared and the transport is quiet
C7_Witness ==
    /\ led_log = TwoCalls \o << << "take", 10 >>, << "sent", 10 >> >>
    /\ ~g_ledFlashDurationChanged /\ Quiet

\* C8: every byte received in a valid slot is, once the receive loop has
\* passed its slot, in the inbound queue or has been handed to the receiver:
\* the bytes delivered, then those queued, then those of the block in hand
\* are the bytes the device sent, in order.
RECURSIVE Flatten(_)
Flatten(chunks) ==
    IF chunks = << >> THEN << >> ELSE Head(chunks) \o Flatten(Tail(chunks))

\* payloads of the valid slots the receive loop has still to look at
PendingRx ==
    IF w_pc # "rx" THEN << >>
    ELSE LET todo == SelectSeq(<< 1, 2 >>, LAMBDA k : k >= Slot /\ rxbuf[k][1] # 0)
         IN  [k \in 1..Len(todo) |-> rxbuf[todo[k]][2]]

C8_NoInboundDrop ==
    Flatten(delivered) \o spi_fifo_in \o PendingRx = [k \in 1..rx_n |-> RxByte(k)]

\* C9: with a callback registered, the pass of the receive loop that appends
\* the 17th undelivered byte calls the callback at once, with the session
\* still in its loop, and no other pass calls it; when the session leaves the
\* loop the callback is called once more exactly if the queue is not empty;
\* no other step of the program calls it.
RxPass == w_pc = "rx" /\ w_i' = w_i + 2

Seventeenth ==
    /\ rxbuf[Slot][1] # 0 /\ g_recvCallback # "NULL"
    /\ Len(spi_fifo_in) >= 16

SessionEnd == w_pc = "final" /\ w_pc' = "idle"

C9_LowWaterFlush ==
    [][ /\ (RxPass /\ Seventeenth) =>
               /\ Len(delivered') = Len(delivered) + 1
               /\ delivered'[Len(delivered')] = Append(spi_fifo_in, rxbuf[Slot][2])
               /\ spi_fifo_in' = << >>
               /\ w_pc' = "rx"
        /\ (RxPass /\ ~Seventeenth) => delivered' = delivered
        /\ SessionEnd =>
               IF spi_fifo_in # << >> /\ g_recvCallback # "NULL"
               THEN delivered' = Append(delivered, spi_fifo_in)
               ELSE delivered' = delivered
        /\ (w_pc \notin {"rx", "final"}) => delivered' = delivered
      ]_vars

\* one session received 18 bytes with the callback registered: 17 were handed
\* over inside the loop and the last one when the session ended
C9_Witness ==
    /\ Len(delivered) = 2 /\ Len(delivered[1]) = 17 /\ Len(delivered[2]) = 1
    /\ w_pc = "idle" /\ rx_n = 18

\* C10: the occupancy estimate is never negative and stays under the ceiling
\* of 127000.
C10_OccupancyBound ==
    /\ out_buffer_used_millibytes >= 0
    /\ out_buffer_used_millibytes < 127000

\* C11: neither queue is ever longer than FIFO_SIZE.  The bytes handed to the
\* receiver followed by those in the inbound queue change only by a push at
\* the tail: a push with room appends its byte, a push onto the full queue
\* changes nothing, and handing bytes to the receiver keeps their order.  The
\* bytes in the outbound queue followed by those left in the stream are the
\* last bytes written, in the order written, and the session takes the head
\* of the outbound queue.
FifoOrder ==
    /\ Len(spi_fifo_in) <= FIFO_SIZE /\ Len(spi_fifo_out) <= FIFO_SIZE
    /\ LET left == spi_fifo_out \o substream_buf
       IN  left = [k \in 1..Len(left) |-> TxByte(tx_n - Len(left) + k)]

\* a pass of the receive loop over a valid slot
PushInbound == w_pc = "rx" /\ w_i' = w_i + 2 /\ rxbuf[Slot][1] # 0

PopOutbound == w_pc = "build" /\ spi_fifo_out' # spi_fifo_out

C12_ErrorClasses ==
    /\ info_err = "bus" => init_ret = "EPROBE_DEFER"
    /\ info_err = "protocol" => init_ret = "EINVAL"

\* C13: after a handshake that ended on a malformed record the accessors
\* return nothing that was decoded from the records of that handshake: the
\* firmware version, the serial and the id are empty and the hardware version
\* is the preset one.
C13_NothingPublished ==
    info_err = "protocol" =>
        /\ pisnd_spi_get_fw_version = Preset.fw
        /\ pisnd_spi_get_serial = Preset.serial
        /\ pisnd_spi_get_id = Preset.id
        /\ pisnd_spi_get_hw_version = Preset.hw

\* C14: when the spi_sync of a block returned an error, the receive loop
\* finds no valid slot in the block, so that the bytes received (delivered
\* or waiting in the inbound queue) stay as they are through its passes; the
\* loop condition decides as after any block whether the loop is repeated; the
\* exchange puts nothing back into the outbound queue and the next block is
\* built from a zeroed txbuf with bytes taken from the head of the queue; and
\* the handles stay set, a request made afterwards is queued unless one is
\* pending, and a queued request is started once the worker is free.
FailedBlock == spi_last = "failed" /\ w_pc \in {"rx", "cond"}

DataBytes(buf) ==
    {k \in 1..Len(buf) : buf[k][1] = DATA_MARKER}

C14_BusErrorInSession ==
    /\ [](FailedBlock => rxbuf = EmptyBuf)
    /\ [](spi_last = "failed" /\ w_pc = "build" =>
              \A k \in Slot..Len(txbuf) : txbuf[k] = EmptySlot)
    /\ [](spi_last = "failed" =>
              /\ pisnd_spi_device /\ pisnd_workqueue = "live" /\ ~oops
              /\ (wq_queued > 0 /\ w_running = 0 => ENABLED WorkStart))
    /\ [][ /\ FailedBlock =>
                 Flatten(delivered') \o spi_fifo_in' =
                     Flatten(delivered) \o spi_fifo_in
           /\ FailedBlock /\ w_pc = "cond" /\ w_pc' # w_pc =>
                 w_pc' = IF LoopCond THEN "peek" ELSE "final"
           /\ w_pc = "xfer" /\ w_pc' = "rx" /\ spi_last' = "failed" =>
                 spi_fifo_out' = spi_fifo_out /\ w_i' = 0
           /\ spi_last = "failed" /\ w_pc = "build" /\ txbuf' # txbuf =>
                 /\ spi_fifo_out' = Tail(spi_fifo_out)
                 /\ txbuf'[Slot] = << DATA_MARKER, Head(spi_fifo_out) >>
           /\ spi_last = "failed" /\ wq_queued' # wq_queued
                 /\ w_running' = w_running =>
                 ~work_pending /\ work_pending' /\ wq_queued' = wq_queued + 1
         ]_vars

\* a failed block that carried a byte of the output stream, the device
\* holding its line up with bytes to send
C14_Witness ==
    /\ FailedBlock /\ w_pc = "cond"
    /\ DataBytes(txbuf) # {}
    /\ rx_n < dev_total /\ da_level

\* C15: against the reference device answering its first n records (n up to
\* MaxRecords, those beyond the fourth being further one-byte records), a
\* handshake of which no spi_sync fails succeeds after reading every word of
\* the answer, with firmware version "1.02" from record 0, serial
\* "ABC1234567" (as character codes) from record 1, id "dead" from record 2
\* and hardware version "1.0", whether record 3 was supplied or not; a field
\* of which the record was not supplied is empty.
HandshakeDone == info_n > 0 /\ info_err # "bus"

C15_DecodeByPosition ==
    \A n \in 0..MaxRecords :
        dev_info = Answer(DeviceRecords(n)) /\ HandshakeDone =>
            /\ info_err = "none" /\ init_ret # "EINVAL"
            /\ life_pc # "unloaded"
            /\ info_n = Len(dev_info)
            /\ pisnd_spi_get_fw_version =
                   IF n >= 1 THEN << "1", ".", "0", "2" >> ELSE << >>
            /\ pisnd_spi_get_serial =
                   IF n >= 2 THEN << 65, 66, 67, 49, 50, 51, 52, 53, 54, 55 >>
                   ELSE << >>
            /\ pisnd_spi_get_id =
                   IF n >= 3 THEN << "d", "e", "a", "d" >> ELSE << >>
            /\ pisnd_spi_get_hw_version = << "1", ".", "0" >>

\* the start has returned 0 after a handshake with a device of MaxRecords records
C15_Witness ==
    /\ dev_info = Answer(DeviceRecords(MaxRecords))
    /\ life_pc = "loaded" /\ init_ret = "0"
    /\ info_n = Len(dev_info)
    /\ pisnd_spi_get_id = << "d", "e", "a", "d" >>

\* C16: a text written to the led attribute that is not a decimal numeral of
\* a value in 0..255 (with leading zeros, an optional "+" before it and an
\* optional newline after it) makes pisnd_led_store return with the duration
\* and the flag of the LED request as they were and without a request for
\* work; the numeral of v in 0..255 sets the duration to v, after which the
\* flag is set and pisnd_schedule_process is entered, which queues the work
\* item unless it is pending.
DecText(v) ==
    IF v < 10 THEN << HexDigits[v + 1] >>
    ELSE IF v < 100 THEN << HexDigits[(v \div 10) + 1], HexDigits[(v % 10) + 1] >>
    ELSE << HexDigits[(v \div 100) + 1], HexDigits[((v \div 10) % 10) + 1],
            HexDigits[(v % 10) + 1] >>

Numerals ==
    [v \in 0..255 |->
        { sign \o [k \in 1..z |-> "0"] \o DecText(v) \o nl :
            sign \in {<< >>, << "+" >>}, z \in 0..MaxLedText,
            nl \in {<< >>, << "nl" >>} }]

InRange == UNION {Numerals[v] : v \in 0..255}

LedCallLeaves(pc) == call_pc["led"] = pc /\ call_pc'["led"] # pc

C16_LedStoreBoundary ==
    [][ /\ LedCallLeaves("store") /\ led_arg \notin InRange =>
              /\ UNCHANGED << g_ledFlashDuration, g_ledFlashDurationChanged,
                              work_pending, wq_queued >>
              /\ call_pc'["led"] = "idle"
        /\ \A v \in 0..255 :
              LedCallLeaves("store") /\ led_arg \in Numerals[v] =>
                  g_ledFlashDuration' = v /\ call_pc'["led"] = "flag"
        /\ LedCallLeaves("flag") =>
              g_ledFlashDurationChanged' /\ call_pc'["led"] = "sched"
        /\ LedCallLeaves("sched") =>
              call_pc'["led"] = IF work_pending THEN "idle" ELSE "queue"
        /\ LedCallLeaves("queue") =>
              work_pending' /\ wq_queued' = 1
      ]_vars

\* "256" is written after "255" has been stored and its work requested
C16_Witness ==
    /\ call_pc["led"] = "store" /\ led_arg = << "2", "5", "6" >>
    /\ g_ledFlashDuration = 255 /\ g_ledFlashDurationChanged
    /\ work_pending

\* C17: a pass of the loop that fills txbuf takes a byte from the outbound
\* queue into a slot only when the estimate plus 1000 is below 127000 and no
\* LED request is pending; a pass made with an LED request pending goes on to
\* place the LED command, with or without headroom; and a byte that follows an
\* LED command in a block was placed with headroom.
BuildPass == w_pc = "build" /\ (w_pc' # "build" \/ w_i' # w_i)

C17_HeadroomGate ==
    /\ [](w_pc \in {"build", "xfer"} /\ txbuf[1][1] = LED_MARKER
              /\ txbuf[2][1] = DATA_MARKER =>
              out_buffer_used_millibytes < PISOUND_OUTPUT_BUFFER_SIZE_MILLIBYTES)
    /\ [][ /\ BuildPass /\ txbuf' # txbuf =>
                 /\ out_buffer_used_millibytes <
                        PISOUND_OUTPUT_BUFFER_SIZE_MILLIBYTES - MILLIBYTES_PER_BYTE
                 /\ ~g_ledFlashDurationChanged
                 /\ txbuf'[Slot] = << DATA_MARKER, Head(spi_fifo_out) >>
           /\ BuildPass /\ w_i < TRANSFER_SIZE /\ g_ledFlashDurationChanged =>
                 w_pc' = "led_read"
         ]_vars

\* C18: when the session has looked at both slots of the block received,
\* had_data tells whether one of them was valid, and the session goes back to
\* the top of the loop if a slot was valid, or the outbound queue is not
\* empty, or the device holds the data-available line up, or an LED request
\* is pending, or the estimate is not 0; if none of these holds it leaves the
\* loop.
C18_LoopContinuation ==
    /\ [](w_pc = "cond" =>
              (had_data <=> \E k \in 1..Len(rxbuf) : rxbuf[k][1] # 0))
    /\ [][w_pc = "cond" /\ w_pc' # "cond" =>
              w_pc' = IF \/ \E k \in 1..Len(rxbuf) : rxbuf[k][1] # 0
                         \/ Len(spi_fifo_out) > 0
                         \/ da_level
                         \/ g_ledFlashDurationChanged
                         \/ out_buffer_used_millibytes # 0
                      THEN "peek" ELSE "final"]_vars

\* the loop is about to be repeated for a pending LED request alone
C18_Witness ==
    /\ w_pc = "cond" /\ g_ledFlashDurationChanged
    /\ ~had_data /\ spi_fifo_out = << >> /\ ~da_level
    /\ out_buffer_used_millibytes = 0
    /\ rx_n = MaxRx /\ substream_buf = << >>

\* C19: at the top of the loop the session takes bytes from the output
\* stream only if a stream is open and the outbound queue has room for
\* TRANSFER_SIZE bytes; it then takes the first TRANSFER_SIZE bytes of the
\* stream (all of them if there are fewer), and the bytes it leaves in the
\* queue and in the stream are together the same sequence as before: each
\* byte acknowledged to the stream is at the tail of the queue, once and in
\* order.
TopOfLoop == w_pc = "peek" /\ w_pc' = "build"

C19_StreamIntake ==
    [][TopOfLoop =>
          /\ spi_fifo_out' \o substream_buf' = spi_fifo_out \o substream_buf
          /\ Len(spi_fifo_out') <= FIFO_SIZE
          /\ Len(substream_buf) - Len(substream_buf') =
                 IF g_midi_output_substream
                      /\ FIFO_SIZE - Len(spi_fifo_out) >= TRANSFER_SIZE
                 THEN Min(TRANSFER_SIZE, Len(substream_buf))
                 ELSE 0
      ]_vars

\* the session has left bytes in the stream for want of room in the queue
C19_Witness ==
    /\ w_pc = "build" /\ w_i = 0
    /\ g_midi_output_substream /\ substream_buf # << >>
    /\ Len(spi_fifo_out) = FIFO_SIZE - 3

\* C20: while a block is built the estimate grows by exactly 1000 in a pass
\* that places a byte of the outbound queue and stays as it is in a pass that
\* places an LED command or leaves the slot empty; the exchange of the block
\* then takes off MIDI_MILLIBYTES_PER_JIFFIE for each jiffy since
\* last_transfer_at (the previous exchange of the session, or its start), down
\* to 0 at most.  (The drain is written with half the rate, within 32 bits.)
C20_OccupancyAccounting ==
    [][ /\ BuildPass /\ txbuf' # txbuf =>
              /\ txbuf'[Slot][1] = DATA_MARKER
              /\ out_buffer_used_millibytes' - MILLIBYTES_PER_BYTE =
                     out_buffer_used_millibytes
        /\ BuildPass /\ txbuf' = txbuf =>
              out_buffer_used_millibytes' = out_buffer_used_millibytes
        /\ w_pc \in {"led_read", "led_zero", "led_clear"} =>
              out_buffer_used_millibytes' = out_buffer_used_millibytes
        /\ w_pc = "xfer" /\ w_pc' = "rx" =>
              LET h == Elapsed(jiffies, last_transfer_at) * HalfRate
              IN  out_buffer_used_millibytes' =
                      IF out_buffer_used_millibytes - h <= h THEN 0
                      ELSE (out_buffer_used_millibytes - h) - h
      ]_vars

\* C21: pisnd_spi_init returns 0 only if the bus device was found, the
\* handshake succeeded, the interrupt was registered and the work queue was
\* created; a start in which one of these steps failed has returned an error
\* and left the device handle cleared and no work queue.
C21_StartReportsFailure ==
    /\ life_pc = "loaded" /\ init_ret = "0" =>
           /\ pisnd_spi_device
           /\ info_err = "none"
           /\ irq_on
           /\ pisnd_workqueue = "live"
    /\ life_pc = "unloaded" /\ init_ret \in {"EPROBE_DEFER", "EINVAL"} =>
           /\ ~pisnd_spi_device
           /\ pisnd_workqueue # "live"

\* the step in which the session leaves its loop: the condition of the
\* do-while was found false
LoopExit == w_pc = "cond" /\ w_pc' = "final"

\* C22: whenever no session is executing the outbound queue is empty; and in
\* the step in which a session leaves its loop the estimate is 0, the LED
\* flag read by the condition is clear and the last snd_rawmidi_transmit_peek
\* of the session returned no bytes.
C22_Quiescence ==
    /\ [](w_running = 0 => spi_fifo_out = << >>)
    /\ [][LoopExit =>
              /\ out_buffer_used_millibytes = 0
              /\ ~g_ledFlashDurationChanged
              /\ w_n = 0
         ]_vars

\* C22, amended: as above, but of the last peek only that its bytes have all
\* left the outbound queue (they may have been peeked in the last pass of
\* the loop).
C22_QuiescenceQueue ==
    /\ [](w_running = 0 => spi_fifo_out = << >>)
    /\ [][LoopExit =>
              /\ out_buffer_used_millibytes = 0
              /\ ~g_ledFlashDurationChanged
              /\ spi_fifo_out = << >>
         ]_vars

\* a session has left its loop in the pass in which it peeked the last byte
\* of the stream: the byte went out in the block of that pass and a jiffy
\* passed during the exchange
C22_Witness ==
    /\ w_pc = "final" /\ w_n > 0
    /\ g_midi_output_substream /\ substream_buf = << >>
    /\ spi_fifo_out = << >> /\ out_buffer_used_millibytes = 0

\* position in led_log of the last call of pisnd_spi_flash_leds (0 if none)
LastCall ==
    LET calls == {k \in 1..Len(led_log) : led_log[k][1] = "call"}
    IN  IF calls = {} THEN 0 ELSE CHOOSE k \in calls : \A j \in calls : j <= k

\* every LED command the session has filled in or sent carries the duration
\* of a call made before
LedSlotsRequested ==
    \A k \in 1..Len(led_log) :
        led_log[k][1] \in {"take", "sent"} =>
            \E j \in 1..(k - 1) : led_log[j] = << "call", led_log[k][2] >>

\* once the transport is quiet, an LED command with the duration of the last
\* call has been sent after that call began
LastRequestSent ==
    (Quiet /\ LastCall > 0) =>
        \E k \in (LastCall + 1)..Len(led_log) :
            led_log[k] = << "sent", led_log[LastCall][2] >>

\* C23: however the two writes of pisnd_spi_flash_leds interleave with the
\* session's read of the duration, its reset of the duration and its clearing
\* of the flag, every LED command slot sent carries a duration passed to some
\* call, and the most recent request is followed by an LED command carrying
\* its duration.
C23_LedInterleaving ==
    /\ LedSlotsRequested
    /\ LastRequestSent

\* a step in which the session invokes g_recvCallback(g_recvData): the
\* callback empties the inbound queue into one more delivery
CallbackInvoked == Len(delivered') = Len(delivered) + 1

\* C24: however pisnd_spi_set_callback (from pisnd_input_trigger, with the
\* callback and the substream or with NULL, NULL) interleaves with a session,
\* the session never calls a null callback, and it invokes
\* pisnd_midi_recv_callback only with the substream that was registered
\* together with it.
C24_CallbackPair ==
    [][CallbackInvoked =>
           /\ g_recvCallback # "NULL"
           /\ g_recvCallback = "pisnd_midi_recv_callback" =>
                  g_recvData = "substream"
      ]_vars

\* payloads of the ordinary data slots of a block, in slot order
DataSlots(buf) ==
    LET d == SelectSeq(<< buf[1], buf[2] >>, LAMBDA x : x[1] = DATA_MARKER)
    IN  [k \in 1..Len(d) |-> d[k][2]]

\* bytes acknowledged to the output stream and not yet transmitted: those
\* placed in the block being built, then those in the outbound queue
Pipeline ==
    (IF w_pc \in {"build", "led_read", "led_zero", "led_clear", "xfer"}
     THEN DataSlots(txbuf) ELSE << >>) \o spi_fifo_out

\* bytes the step acknowledges to the output stream (the peek at the top of
\* the loop), and bytes it transmits in data slots (spi_transfer of the block)
Acknowledged ==
    IF w_pc = "peek" /\ w_pc' = "build"
    THEN SubSeq(substream_buf, 1, Len(substream_buf) - Len(substream_buf'))
    ELSE << >>

Transmitted ==
    IF w_pc = "xfer" /\ w_pc' = "rx" /\ pisnd_spi_device
    THEN DataSlots(txbuf) ELSE << >>

\* C25: the data slots of the transmitted blocks carry exactly the bytes
\* acknowledged to the output stream, each once and in the order of their
\* acknowledgement: in every step the bytes in flight followed by those the
\* step acknowledges are the bytes the step transmits followed by those in
\* flight afterwards, a block has data only in slots marked 0x0f whatever
\* LED or empty slots it holds, and the acknowledged bytes leave the head of
\* the stream.
C25_OutboundOrder ==
    [][ /\ Pipeline \o Acknowledged = Transmitted \o Pipeline'
        /\ substream_buf = Acknowledged \o substream_buf'
               \/ (~g_midi_output_substream' /\ substream_buf' = << >>)
        /\ \A k \in 1..Len(txbuf') :
               txbuf'[k][1] \in {0, DATA_MARKER, LED_MARKER}
      ]_vars

\* a block holding an LED command and a data byte has been sent, the
\* headroom is used up so that the next blocks carry no data until the clock
\* ticks, the stream is drained and bytes are still queued
C25_Witness ==
    /\ w_pc = "rx"
    /\ txbuf[1][1] = LED_MARKER /\ txbuf[2][1] = DATA_MARKER
    /\ ~HasHeadroom(out_buffer_used_millibytes)
    /\ substream_buf = << >> /\ spi_fifo_out # << >>

====
